---- MODULE Spec2Model ----
(***************************************************************************)
(* Aperture-Frame: the EXIF/TIFF decoder (extractExifData,                 *)
(* parseExifOrientation) and the frame geometry (computeFrameLayout) of    *)
(* the photo-bordering tool, as state machines over byte buffers and       *)
(* image dimensions.                                                       *)
(*                                                                         *)
(* Conventions.                                                            *)
(*  - A DataView is a sequence of bytes; byte offset p is element p + 1.   *)
(*  - A JavaScript value is a record tagged by t: "undefined", "number"    *)
(*    (an exact fraction n/d in lowest terms, d > 0; Infinity is 1/0),     *)
(*    "string" (its sequence of UTF-16 code units c), "array" (a sequence  *)
(*    a of numbers), or "throw" (an exception on its way to the caller:   *)
(*    the RangeError of a DataView read out of bounds, or the rejection    *)
(*    of file.arrayBuffer()).                                              *)
(*  - `${number}` in the debug mapping is kept as the tagged number        *)
(*    (Number::toString is injective on the values reached here).          *)
(***************************************************************************)
EXTENDS Integers, Sequences, FiniteSets, TLC

VARIABLES file, src, exif, orient, dims, layout, size, oriented, scale,
          exifTemplate, exifLine, page, run, probe, reads, scan,
          exportCanvas, xform, loader

vars ==
  <<file, src, exif, orient, dims, layout, size, oriented, scale,
    exifTemplate, exifLine, page, run, probe, reads, scan,
    exportCanvas, xform, loader>>

(***************************************************************************)
(* JavaScript values                                                       *)
(***************************************************************************)
undefined == [t |-> "undefined"]

Thrown == [t |-> "throw"]

Str(codes) == [t |-> "string", c |-> codes]

Arr(items) == [t |-> "array", a |-> items]

Abs(i) == IF i < 0 THEN -i ELSE i

RECURSIVE Gcd(_, _)
Gcd(a, b) == IF b = 0 THEN a ELSE Gcd(b, a % b)

\* The number n/d (d # 0) in lowest terms with a positive denominator.
Num(n, d) ==
  LET g == Gcd(Abs(n), Abs(d))
      s == IF d < 0 THEN -1 ELSE 1
  IN [t |-> "number", n |-> s * (n \div g), d |-> s * (d \div g)]

Int2Num(i) == [t |-> "number", n |-> i, d |-> 1]

Infinity == [t |-> "number", n |-> 1, d |-> 0]

IsNumber(v) == v.t = "number"

isFinite(v) == IsNumber(v) /\ v.d # 0

\* !value for a value that is undefined or a number (no NaN arises here).
Falsy(v) == v.t = "undefined" \/ (IsNumber(v) /\ v.n = 0)

LessEq0(v) == v.n <= 0

\* Math.round: the integer nearest to v, ties upward; Infinity stays.
MathRound(v) ==
  IF v.d = 0 THEN v ELSE Int2Num((2 * v.n + v.d) \div (2 * v.d))

\* left ?? right
Coalesce(left, right) == IF left.t = "undefined" THEN right ELSE left

(***************************************************************************)
(* Strings as code-unit sequences                                          *)
(***************************************************************************)
EmDash == <<8212>>

RECURSIVE Digits(_)
Digits(i) ==
  IF i < 10 THEN <<48 + i>> ELSE Digits(i \div 10) \o <<48 + (i % 10)>>

InfinityText == <<73, 110, 102, 105, 110, 105, 116, 121>>

\* `${v}` for an integer-valued number or Infinity.
IntText(v) ==
  IF v.d = 0 THEN InfinityText
  ELSE IF v.n < 0 THEN <<45>> \o Digits(-v.n) ELSE Digits(v.n)

\* value.toFixed(1).replace(/\.0$/, '') for value > 0.
ToFixed1Stripped(v) ==
  IF v.d = 0 THEN InfinityText
  ELSE LET tenths == (20 * v.n + v.d) \div (2 * v.d)
       IN IF tenths % 10 = 0 THEN Digits(tenths \div 10)
          ELSE Digits(tenths \div 10) \o <<46>> \o Digits(tenths % 10)

IsSpace(code) == code \in {9, 10, 11, 12, 13, 32, 160}

RECURSIVE TrimStart(_)
TrimStart(s) ==
  IF s # <<>> /\ IsSpace(Head(s)) THEN TrimStart(Tail(s)) ELSE s

RECURSIVE TrimEnd(_)
TrimEnd(s) ==
  IF s # <<>> /\ IsSpace(s[Len(s)]) THEN TrimEnd(SubSeq(s, 1, Len(s) - 1))
  ELSE s

Trim(s) == TrimEnd(TrimStart(s))

(***************************************************************************)
(* DataView reads                                                          *)
(***************************************************************************)
byteLength(view) == Len(view)

\* A DataView read of `width` bytes at `offset` raises RangeError.
Throws(view, offset, width) == offset < 0 \/ offset + width > Len(view)

getUint8(view, offset) == view[offset + 1]

getUint16(view, offset, little) ==
  IF little THEN view[offset + 1] + 256 * view[offset + 2]
  ELSE 256 * view[offset + 1] + view[offset + 2]

getUint32(view, offset, little) ==
  IF little
  THEN view[offset + 1] + 256 * view[offset + 2] + 65536 * view[offset + 3]
       + 16777216 * view[offset + 4]
  ELSE 16777216 * view[offset + 1] + 65536 * view[offset + 2]
       + 256 * view[offset + 3] + view[offset + 4]

getInt32(view, offset, little) ==
  LET top == IF little THEN view[offset + 4] ELSE view[offset + 1]
      low == IF little
             THEN view[offset + 1] + 256 * view[offset + 2]
                  + 65536 * view[offset + 3]
             ELSE 65536 * view[offset + 2] + 256 * view[offset + 3]
                  + view[offset + 4]
  IN (IF top >= 128 THEN top - 256 ELSE top) * 16777216 + low

(***************************************************************************)
(* Tag constants                                                           *)
(***************************************************************************)
TAG_MAKE == 271
TAG_MODEL == 272
TAG_ORIENTATION == 274
TAG_EXIF_IFD_POINTER == 34665
EXIF_TAG_FNUMBER == 33437
EXIF_TAG_EXPOSURE_TIME == 33434
EXIF_TAG_SHUTTER_SPEED_VALUE == 37377
EXIF_TAG_APERTURE_VALUE == 37378
EXIF_TAG_ISO == 34855
EXIF_TAG_PHOTOGRAPHIC_SENSITIVITY == 34867
EXIF_TAG_FOCAL_LENGTH == 37386
EXIF_TAG_LENS_SPECIFICATION == 42034
EXIF_TAG_LENS_MODEL == 42036
EXIF_TAG_DATE_TIME_ORIGINAL == 36867
MARKER_SOI == 65496
MARKER_APP1 == 65505
EXIF_SIGNATURE == 1165519206

(***************************************************************************)
(* Binary reader primitives                                                *)
(***************************************************************************)
\* The loop of readAscii: the code units up to a NUL, `count` or the end.
RECURSIVE readAsciiChars(_, _, _, _)
readAsciiChars(view, offset, count, i) ==
  IF ~(i < count /\ offset + i < byteLength(view)) THEN <<>>
  ELSE LET code == getUint8(view, offset + i)
       IN IF code = 0 THEN <<>>
          ELSE <<code>> \o readAsciiChars(view, offset, count, i + 1)

readAscii(view, offset, count) ==
  LET trimmed == Trim(readAsciiChars(view, offset, count, 0))
  IN IF Len(trimmed) # 0 THEN Str(trimmed) ELSE undefined

typeSize(type) ==
  CASE type \in {1, 2, 7} -> 1
    [] type = 3 -> 2
    [] type \in {4, 9} -> 4
    [] type \in {5, 10} -> 8
    [] OTHER -> 0

readRational(view, offset, little) ==
  IF offset + 8 > byteLength(view) THEN undefined
  ELSE IF Throws(view, offset, 4) \/ Throws(view, offset + 4, 4)
  THEN Thrown
  ELSE LET numerator == getUint32(view, offset, little)
           denominator == getUint32(view, offset + 4, little)
       IN IF denominator = 0 THEN undefined
          ELSE Num(numerator, denominator)

readSignedRational(view, offset, little) ==
  IF offset + 8 > byteLength(view) THEN undefined
  ELSE IF Throws(view, offset, 4) \/ Throws(view, offset + 4, 4)
  THEN Thrown
  ELSE LET numerator == getInt32(view, offset, little)
           denominator == getInt32(view, offset + 4, little)
       IN IF denominator = 0 THEN undefined
          ELSE Num(numerator, denominator)

formatShutter(seconds) ==
  IF Falsy(seconds) \/ LessEq0(seconds) THEN undefined
  ELSE IF seconds.d = 0 \/ seconds.n >= seconds.d
  THEN Str(ToFixed1Stripped(seconds) \o <<115>>)
  ELSE LET inv == MathRound(Num(seconds.d, seconds.n))
       IN IF inv.n > 0 THEN Str(<<49, 47>> \o IntText(inv)) ELSE undefined

formatAperture(value) ==
  IF Falsy(value) \/ LessEq0(value) THEN undefined
  ELSE Str(ToFixed1Stripped(value))

formatFocal(value) ==
  IF Falsy(value) \/ LessEq0(value) THEN undefined
  ELSE Str(IntText(MathRound(value)))

\* The DataView reads issued by readAscii, as <<offset, width>> pairs: one
\* byte per iteration, the terminating NUL included.
RECURSIVE readAsciiReads(_, _, _, _)
readAsciiReads(view, offset, count, i) ==
  IF ~(i < count /\ offset + i < byteLength(view)) THEN {}
  ELSE {<<offset + i, 1>>}
       \cup (IF Throws(view, offset + i, 1) THEN {}
             ELSE IF getUint8(view, offset + i) = 0 THEN {}
             ELSE readAsciiReads(view, offset, count, i + 1))

\* numerator and denominator are read after one test of offset + 4
readRationalReads_NumeratorOnly(view, offset) ==
  IF offset + 4 > byteLength(view) THEN {}
  ELSE {<<offset, 4>>, <<offset + 4, 4>>}

\* The reads of readRational and of readSignedRational.
readRationalReads(view, offset) ==
  IF offset + 8 > byteLength(view) THEN {}
  ELSE {<<offset, 4>>, <<offset + 4, 4>>}

(***************************************************************************)
(* Tag directory parser                                                    *)
(***************************************************************************)
\* Map.get of a tag the directory does not hold.
undefinedEntry == [type |-> -1, count |-> -1, valueOffset |-> -1]

emptyMap == [t |-> "map", m |-> <<>>]

\* tags compared by their low byte only; the largest matching tag wins
MapGet_LowByte(entries, tag) ==
  LET alike == {k \in DOMAIN entries.m : k % 256 = tag % 256}
  IN IF alike # {}
     THEN entries.m[CHOOSE k \in alike : \A o \in alike : o <= k]
     ELSE undefinedEntry

MapGet(entries, tag) ==
  IF tag \in DOMAIN entries.m THEN entries.m[tag] ELSE undefinedEntry

MapSet(entries, tag, entry) ==
  [t |-> "map",
   m |-> [k \in DOMAIN entries.m \cup {tag} |->
            IF k = tag THEN entry ELSE entries.m[k]]]

\* where an entry's value lives: inline at entry + 8, or at TIFF base + raw
ValueOffsetOf(entryOffset, tiffOffset, bytes, rawOffset) ==
  IF bytes <= 4 THEN entryOffset + 8 ELSE tiffOffset + rawOffset

\* Iterations i .. count-1 of the loop of parseIFD.  Once an entry's 12
\* bytes pass the end of the view, so do those of every later entry, and
\* the loop only `continue`s from there on.
RECURSIVE parseIFDLoop(_, _, _, _, _, _, _)
parseIFDLoop(view, tiffOffset, ifdOffset, little, count, i, entries) ==
  LET entryOffset == ifdOffset + 2 + i * 12
  IN IF ~(i < count) THEN entries
     ELSE IF entryOffset + 12 > byteLength(view) THEN entries
     ELSE IF \/ Throws(view, entryOffset, 2)
             \/ Throws(view, entryOffset + 2, 2)
             \/ Throws(view, entryOffset + 4, 4)
             \/ Throws(view, entryOffset + 8, 4)
     THEN Thrown
     ELSE LET tag == getUint16(view, entryOffset, little)
              type == getUint16(view, entryOffset + 2, little)
              itemCount == getUint32(view, entryOffset + 4, little)
              rawOffset == getUint32(view, entryOffset + 8, little)
              bytes == typeSize(type) * itemCount
              valueOffset ==
                ValueOffsetOf(entryOffset, tiffOffset, bytes, rawOffset)
          IN parseIFDLoop(view, tiffOffset, ifdOffset, little, count, i + 1,
               MapSet(entries, tag,
                 [type |-> type, count |-> itemCount,
                  valueOffset |-> valueOffset]))

\* a parser that reads the entry count without the bounds check
parseIFD_Unchecked(view, tiffOffset, ifdOffset, little) ==
  IF Throws(view, ifdOffset, 2) THEN Thrown
  ELSE parseIFDLoop(view, tiffOffset, ifdOffset, little,
                    getUint16(view, ifdOffset, little), 0, emptyMap)

parseIFD(view, tiffOffset, ifdOffset, little) ==
  IF ifdOffset + 2 > byteLength(view) THEN emptyMap
  ELSE IF Throws(view, ifdOffset, 2) THEN Thrown
  ELSE parseIFDLoop(view, tiffOffset, ifdOffset, little,
                    getUint16(view, ifdOffset, little), 0, emptyMap)

\* The SHORT array loop of readEntryValue (it breaks at the first element
\* that does not fit).
RECURSIVE readShorts(_, _, _, _, _)
readShorts(view, valueOffset, count, little, i) ==
  LET pos == valueOffset + i * 2
  IN IF ~(i < count) \/ pos + 2 > byteLength(view) THEN <<>>
     ELSE <<Int2Num(getUint16(view, pos, little))>>
          \o readShorts(view, valueOffset, count, little, i + 1)

\* The RATIONAL / SRATIONAL array loops of readEntryValue: a value that is
\* undefined is not pushed.  Once an element passes the end of the view
\* every later one does, and none of them is pushed.
RECURSIVE readRationals(_, _, _, _, _, _)
readRationals(view, valueOffset, count, little, signed, i) ==
  LET pos == valueOffset + i * 8
      value == IF signed THEN readSignedRational(view, pos, little)
               ELSE readRational(view, pos, little)
  IN IF ~(i < count) \/ pos + 8 > byteLength(view) THEN <<>>
     ELSE IF value # undefined
     THEN <<value>>
          \o readRationals(view, valueOffset, count, little, signed, i + 1)
     ELSE readRationals(view, valueOffset, count, little, signed, i + 1)

\* The reads of the entry loop of parseIFD.
RECURSIVE parseIFDLoopReads(_, _, _, _)
parseIFDLoopReads(view, ifdOffset, count, i) ==
  LET entryOffset == ifdOffset + 2 + i * 12
  IN IF ~(i < count) \/ entryOffset + 12 > byteLength(view) THEN {}
     ELSE {<<entryOffset, 2>>, <<entryOffset + 2, 2>>,
           <<entryOffset + 4, 4>>, <<entryOffset + 8, 4>>}
          \cup parseIFDLoopReads(view, ifdOffset, count, i + 1)

\* The reads of parseIFD: the entry count, then four fields per entry.
parseIFDReads(view, ifdOffset, little) ==
  IF ifdOffset + 2 > byteLength(view) THEN {}
  ELSE {<<ifdOffset, 2>>}
       \cup (IF Throws(view, ifdOffset, 2) THEN {}
             ELSE parseIFDLoopReads(view, ifdOffset,
                                    getUint16(view, ifdOffset, little), 0))

RECURSIVE readShortsReads(_, _, _, _)
readShortsReads(view, valueOffset, count, i) ==
  LET pos == valueOffset + i * 2
  IN IF ~(i < count) \/ pos + 2 > byteLength(view) THEN {}
     ELSE {<<pos, 2>>} \cup readShortsReads(view, valueOffset, count, i + 1)

RECURSIVE readRationalsReads(_, _, _, _)
readRationalsReads(view, valueOffset, count, i) ==
  LET pos == valueOffset + i * 8
  IN IF ~(i < count) \/ pos + 8 > byteLength(view) THEN {}
     ELSE readRationalReads(view, pos)
          \cup readRationalsReads(view, valueOffset, count, i + 1)

\* The reads of readEntryValue, branch by branch.
readEntryValueReads(view, entry) ==
  IF entry = undefinedEntry \/ entry.valueOffset >= byteLength(view)
  THEN {}
  ELSE LET type == entry.type
           count == entry.count
           valueOffset == entry.valueOffset
       IN CASE type = 2 -> readAsciiReads(view, valueOffset, count, 0)
            [] type = 3 ->
                 IF count = 1
                 THEN IF valueOffset + 2 > byteLength(view) THEN {}
                      ELSE {<<valueOffset, 2>>}
                 ELSE readShortsReads(view, valueOffset, count, 0)
            [] type = 4 ->
                 IF valueOffset + 4 > byteLength(view) THEN {}
                 ELSE {<<valueOffset, 4>>}
            [] type \in {5, 10} ->
                 IF count = 1 THEN readRationalReads(view, valueOffset)
                 ELSE readRationalsReads(view, valueOffset, count, 0)
            [] OTHER -> {}

readEntryValue(view, entry, little) ==
  IF entry = undefinedEntry \/ entry.valueOffset >= byteLength(view)
  THEN undefined
  ELSE LET type == entry.type
           count == entry.count
           valueOffset == entry.valueOffset
       IN CASE type = 2 -> readAscii(view, valueOffset, count)
            [] type = 3 ->
                 IF count = 1
                 THEN IF valueOffset + 2 > byteLength(view) THEN undefined
                      ELSE Int2Num(getUint16(view, valueOffset, little))
                 ELSE Arr(readShorts(view, valueOffset, count, little, 0))
            [] type = 4 ->
                 IF valueOffset + 4 > byteLength(view) THEN undefined
                 ELSE Int2Num(getUint32(view, valueOffset, little))
            [] type = 5 ->
                 IF count = 1 THEN readRational(view, valueOffset, little)
                 ELSE LET values == readRationals(view, valueOffset, count,
                                                  little, FALSE, 0)
                      IN IF Len(values) # 0 THEN Arr(values) ELSE undefined
            [] type = 10 ->
                 IF count = 1
                 THEN readSignedRational(view, valueOffset, little)
                 ELSE LET values == readRationals(view, valueOffset, count,
                                                  little, TRUE, 0)
                      IN IF Len(values) # 0 THEN Arr(values) ELSE undefined
            [] OTHER -> undefined

toNumber(value) ==
  IF IsNumber(value) /\ isFinite(value) THEN value
  ELSE IF value.t = "array" /\ Len(value.a) > 0 THEN value.a[1]
  ELSE undefined

toString(value) == IF value.t = "string" THEN value ELSE undefined

(***************************************************************************)
(* Derived values                                                          *)
(***************************************************************************)
\* 2 ** e as an IEEE double, for e = x.n / x.d: Infinity from 2^1024 on, 0
\* below 2^-1075, exact for the integer exponents -30 .. 30.  The inputs of
\* this model keep clear of every other exponent.
Pow2(x) ==
  CASE x.n >= 1024 * x.d -> Infinity
    [] x.n < (-1075) * x.d -> Int2Num(0)
    [] x.d = 1 /\ x.n \in 0..30 -> Int2Num(2 ^ x.n)
    [] x.d = 1 /\ x.n \in (-30)..(-1) -> Num(1, 2 ^ (-x.n))

\* 1 / y for a double y >= 0.
Reciprocal(y) ==
  IF y.d = 0 THEN Int2Num(0)
  ELSE IF y.n = 0 THEN Infinity
  ELSE Num(y.d, y.n)

apertureFromApex(av) ==
  IF Falsy(av) \/ ~isFinite(av) THEN undefined
  ELSE Pow2(Num(av.n, 2 * av.d))

shutterFromApex(tv) ==
  IF Falsy(tv) \/ ~isFinite(tv) THEN undefined
  ELSE Reciprocal(Pow2(tv))

UndefinedText == <<117, 110, 100, 101, 102, 105, 110, 101, 100>>

\* `${v}` for v a string or undefined
TemplateText(v) == IF v.t = "undefined" THEN UndefinedText ELSE v.c

\* [minFocal, maxFocal, minAperture, maxAperture] = spec
SpecItem(spec, k) == IF k <= Len(spec.a) THEN spec.a[k] ELSE undefined

lensFromSpecification(spec) ==
  IF spec.t # "array" \/ Len(spec.a) < 2 THEN undefined
  ELSE
    LET minFocal == SpecItem(spec, 1)
        maxFocal == SpecItem(spec, 2)
        minAperture == SpecItem(spec, 3)
        maxAperture == SpecItem(spec, 4)
        focal ==
          IF minFocal = maxFocal
          THEN IntText(MathRound(minFocal)) \o <<109, 109>>
          ELSE IntText(MathRound(minFocal)) \o <<45>>
               \o IntText(MathRound(maxFocal)) \o <<109, 109>>
        aperture ==
          IF minAperture = maxAperture
          THEN <<102, 47>> \o TemplateText(formatAperture(minAperture))
          ELSE <<102, 47>> \o TemplateText(formatAperture(minAperture))
               \o <<45>> \o TemplateText(formatAperture(maxAperture))
    IN IF IsNumber(minAperture) /\ IsNumber(maxAperture)
       THEN Str(focal \o <<32>> \o aperture)
       ELSE Str(focal)

IsDigit(code) == code \in 48..57

\* raw.replace(/^([0-9]{4}):([0-9]{2}):([0-9]{2})/, '$1-$2-$3')
formatDate(raw) ==
  IF raw.t = "undefined" \/ Len(raw.c) = 0 THEN undefined
  ELSE LET c == raw.c
       IN IF /\ Len(c) >= 10
             /\ \A k \in {1, 2, 3, 4, 6, 7, 9, 10} : IsDigit(c[k])
             /\ c[5] = 58
             /\ c[8] = 58
          THEN Str([k \in 1..Len(c) |-> IF k \in {5, 8} THEN 45 ELSE c[k]])
          ELSE raw

(***************************************************************************)
(* EXIF extraction pipeline                                                *)
(***************************************************************************)
NoDebug == [t |-> "undefined"]

Unavailable ==
  [aperture |-> undefined, shutter |-> undefined, iso |-> undefined,
   focal |-> undefined, camera |-> undefined, lens |-> undefined,
   date |-> undefined, debug |-> NoDebug, unavailable |-> TRUE]

\* `${v ?? '-'}` / v ?? '-' of the debug mapping (the dash is U+2014)
\* the raw value with no placeholder for a missing one
DebugText_Raw(v) == v

DebugText(v) == IF v.t = "undefined" THEN Str(EmDash) ELSE v

\* the earlier revision: [make, model].filter(...).join(' ') || undefined
CameraOf_Joined(make, model) ==
  IF make.t = "string" /\ model.t = "string"
  THEN Str(make.c \o <<32>> \o model.c)
  ELSE Coalesce(make, model)

\* model ?? make
CameraOf(make, model) == Coalesce(model, make)

\* the number the aperture is formatted from
ApertureNumber(fNumberRaw, apertureValueRaw) ==
  Coalesce(toNumber(fNumberRaw), apertureFromApex(toNumber(apertureValueRaw)))

\* the number the shutter is formatted from
ShutterNumber(exposureTimeRaw, shutterSpeedRaw) ==
  Coalesce(toNumber(exposureTimeRaw),
           shutterFromApex(toNumber(shutterSpeedRaw)))

\* isoValue ? `${Math.round(isoValue)}` : undefined
IsoText(isoValue) ==
  IF Falsy(isoValue) THEN undefined ELSE Str(IntText(MathRound(isoValue)))

\* lines 239-270: the record built from the values read for the tags
buildExifData(make, model, fNumberRaw, apertureValueRaw, exposureTimeRaw, shutterSpeedRaw, isoRaw, photoSensitivityRaw, focalRaw, lensModelRaw, lensSpecRaw, dateRaw) ==
  IF \E v \in {fNumberRaw, apertureValueRaw, exposureTimeRaw,
               shutterSpeedRaw, isoRaw, photoSensitivityRaw, focalRaw,
               lensModelRaw, lensSpecRaw, dateRaw} : v = Thrown
  THEN Thrown
  ELSE
    [aperture |-> formatAperture(ApertureNumber(fNumberRaw, apertureValueRaw)),
     shutter |-> formatShutter(ShutterNumber(exposureTimeRaw, shutterSpeedRaw)),
     iso |-> IsoText(Coalesce(toNumber(isoRaw),
                              toNumber(photoSensitivityRaw))),
     focal |-> formatFocal(toNumber(focalRaw)),
     camera |-> CameraOf(make, model),
     lens |-> Coalesce(toString(lensModelRaw),
                       lensFromSpecification(lensSpecRaw)),
     date |-> formatDate(toString(dateRaw)),
     debug |->
       [t |-> "object",
        Make |-> DebugText(make),
        Model |-> DebugText(model),
        FNumber |-> DebugText(toNumber(fNumberRaw)),
        ApertureValue |-> DebugText(toNumber(apertureValueRaw)),
        ExposureTime |-> DebugText(toNumber(exposureTimeRaw)),
        ShutterSpeedValue |-> DebugText(toNumber(shutterSpeedRaw)),
        ISOSpeedRatings |-> DebugText(toNumber(isoRaw)),
        PhotographicSensitivity |-> DebugText(toNumber(photoSensitivityRaw)),
        FocalLength |-> DebugText(toNumber(focalRaw)),
        LensModel |-> DebugText(toString(lensModelRaw)),
        LensSpecification |->
          IF lensSpecRaw.t = "array" THEN lensSpecRaw ELSE Str(EmDash),
        DateTimeOriginal |-> DebugText(toString(dateRaw))],
     unavailable |-> FALSE]

\* lines 228-237: the ten tags read from the EXIF sub-IFD
readExifIfd(view, little, make, model, exifIfd) ==
  IF exifIfd = Thrown THEN Thrown
  ELSE buildExifData(make, model,
    readEntryValue(view, MapGet(exifIfd, EXIF_TAG_FNUMBER), little),
    readEntryValue(view, MapGet(exifIfd, EXIF_TAG_APERTURE_VALUE), little),
    readEntryValue(view, MapGet(exifIfd, EXIF_TAG_EXPOSURE_TIME), little),
    readEntryValue(view, MapGet(exifIfd, EXIF_TAG_SHUTTER_SPEED_VALUE),
                   little),
    readEntryValue(view, MapGet(exifIfd, EXIF_TAG_ISO), little),
    readEntryValue(view, MapGet(exifIfd, EXIF_TAG_PHOTOGRAPHIC_SENSITIVITY),
                   little),
    readEntryValue(view, MapGet(exifIfd, EXIF_TAG_FOCAL_LENGTH), little),
    readEntryValue(view, MapGet(exifIfd, EXIF_TAG_LENS_MODEL), little),
    readEntryValue(view, MapGet(exifIfd, EXIF_TAG_LENS_SPECIFICATION),
                   little),
    readEntryValue(view, MapGet(exifIfd, EXIF_TAG_DATE_TIME_ORIGINAL),
                   little))

\* line 226: exifPtr ? parseIFD(...) : new Map()
exifIfdAt(view, tiffOffset, little, exifPtr) ==
  IF ~Falsy(exifPtr)
  THEN parseIFD(view, tiffOffset, tiffOffset + exifPtr.n, little)
  ELSE emptyMap

\* lines 222-226: Make, Model and the EXIF sub-IFD, given IFD0
readIfd0(view, tiffOffset, little, ifd0) ==
  IF ifd0 = Thrown THEN Thrown
  ELSE readExifIfd(view, little,
         toString(readEntryValue(view, MapGet(ifd0, TAG_MAKE), little)),
         toString(readEntryValue(view, MapGet(ifd0, TAG_MODEL), little)),
         exifIfdAt(view, tiffOffset, little,
           toNumber(readEntryValue(view, MapGet(ifd0, TAG_EXIF_IFD_POINTER),
                                   little))))

\* lines 221-270: both directories are parsed and the record is built
decodeTiff(view, tiffOffset, little, firstIfdOffset) ==
  readIfd0(view, tiffOffset, little,
           parseIFD(view, tiffOffset, tiffOffset + firstIfdOffset, little))

\* lines 213-271: the APP1 branch; `offset` is just past the marker
decodeApp1(view, offset) ==
  LET exifStart == offset + 2
      tiffOffset == exifStart + 6
  IN IF exifStart + 6 >= byteLength(view) THEN Unavailable
     ELSE IF Throws(view, exifStart, 4) THEN Thrown
     ELSE IF getUint32(view, exifStart, FALSE) # EXIF_SIGNATURE
     THEN Unavailable
     ELSE IF Throws(view, tiffOffset, 2) THEN Thrown
     ELSE LET little == getUint16(view, tiffOffset, FALSE) = 18761
          IN IF Throws(view, tiffOffset + 4, 4) THEN Thrown
             ELSE decodeTiff(view, tiffOffset, little,
                             getUint32(view, tiffOffset + 4, little))

\* a scan that steps over a marker whose high byte is not 0xFF
RECURSIVE exifScan_PastCorrupt(_, _)
exifScan_PastCorrupt(view, offset) ==
  IF ~(offset + 4 < byteLength(view)) THEN Unavailable
  ELSE IF Throws(view, offset, 2) THEN Thrown
  ELSE LET marker == getUint16(view, offset, FALSE)
       IN IF marker = MARKER_APP1 THEN decodeApp1(view, offset + 2)
          ELSE IF offset + 2 + 2 > byteLength(view) THEN Unavailable
          ELSE IF Throws(view, offset + 2, 2) THEN Thrown
          ELSE exifScan_PastCorrupt(view,
                 offset + 2 + getUint16(view, offset + 2, FALSE))

\* lines 208-279: the segment scan from `offset`
RECURSIVE exifScan(_, _)
exifScan(view, offset) ==
  IF ~(offset + 4 < byteLength(view)) THEN Unavailable
  ELSE IF Throws(view, offset, 2) THEN Thrown
  ELSE LET marker == getUint16(view, offset, FALSE)
       IN IF marker = MARKER_APP1 THEN decodeApp1(view, offset + 2)
          ELSE IF marker \div 256 # 255 THEN Unavailable
          ELSE IF offset + 2 + 2 > byteLength(view) THEN Unavailable
          ELSE IF Throws(view, offset + 2, 2) THEN Thrown
          ELSE exifScan(view, offset + 2 + getUint16(view, offset + 2, FALSE))

\* a body that starts the segment scan without looking at the SOI marker
exifTryBody_NoSoiCheck(view) ==
  IF byteLength(view) < 4 THEN Unavailable ELSE exifScan(view, 2)

\* the body of the try block, given the bytes file.arrayBuffer() gave
exifTryBody(view) ==
  IF byteLength(view) < 4 THEN Unavailable
  ELSE IF Throws(view, 0, 2) THEN Thrown
  ELSE IF getUint16(view, 0, FALSE) # MARKER_SOI THEN Unavailable
  ELSE exifScan(view, 2)

\* no catch block: the exception leaves extractExifData
CatchAll_Rethrow(outcome) == outcome

\* catch { return { unavailable: true } }
CatchAll(outcome) == IF outcome = Thrown THEN Unavailable ELSE outcome

\* The promise extractExifData(file) settles to.  Reading the bytes of an
\* unreadable file rejects inside the try block.
extractExifData(f) ==
  LET outcome == CatchAll(IF f.readable THEN exifTryBody(f.bytes)
                          ELSE Thrown)
  IN IF outcome = Thrown THEN [state |-> "rejected", value |-> Unavailable]
     ELSE [state |-> "fulfilled", value |-> outcome]

(***************************************************************************)
(* Orientation resolver                                                    *)
(***************************************************************************)
Returned(value) == [kind |-> "returned", value |-> value]

ThrownOut == [kind |-> "thrown", value |-> 0]

\* lines 322-329: the entry loop from entry i on; ifdOffset is past the count
RECURSIVE orientationEntries(_, _, _, _, _)
orientationEntries(view, ifdOffset, little, entries, i) ==
  LET entryOffset == ifdOffset + i * 12
  IN IF ~(i < entries) THEN Returned(1)
     ELSE IF Throws(view, entryOffset, 2) THEN ThrownOut
     ELSE IF getUint16(view, entryOffset, little) = TAG_ORIENTATION
     THEN IF Throws(view, entryOffset + 8, 2) THEN ThrownOut
          ELSE Returned(getUint16(view, entryOffset + 8, little))
     ELSE orientationEntries(view, ifdOffset, little, entries, i + 1)

\* lines 311-329: the APP1 branch; `offset` is just past the marker
orientationApp1(view, offset) ==
  LET tiff == offset + 2 + 6
  IN IF Throws(view, offset, 2) \/ Throws(view, offset + 2, 4) THEN ThrownOut
     ELSE IF getUint32(view, offset + 2, FALSE) # EXIF_SIGNATURE
     THEN Returned(1)
     ELSE IF Throws(view, tiff, 2) THEN ThrownOut
     ELSE
       LET little == getUint16(view, tiff, FALSE) = 18761
       IN IF Throws(view, tiff + 4, 4) THEN ThrownOut
          ELSE
            LET firstIFDOffset == getUint32(view, tiff + 4, little)
                ifdOffset == tiff + firstIFDOffset
            IN IF Throws(view, ifdOffset, 2) THEN ThrownOut
               ELSE orientationEntries(view, ifdOffset + 2, little,
                      getUint16(view, ifdOffset, little), 0)

\* lines 305-337: the segment scan from `offset`
RECURSIVE orientationScan(_, _)
orientationScan(view, offset) ==
  IF ~(offset + 4 < byteLength(view)) THEN Returned(1)
  ELSE IF Throws(view, offset, 2) THEN ThrownOut
  ELSE LET marker == getUint16(view, offset, FALSE)
       IN IF marker = MARKER_APP1 /\ offset + 2 + 8 < byteLength(view)
          THEN orientationApp1(view, offset + 2)
          ELSE IF marker \div 256 # 255 THEN Returned(1)
          ELSE IF Throws(view, offset + 2, 2) THEN ThrownOut
          ELSE orientationScan(view,
                 offset + 2 + getUint16(view, offset + 2, FALSE))

parseExifOrientation(view) ==
  IF byteLength(view) < 4 THEN Returned(1)
  ELSE IF Throws(view, 0, 2) THEN ThrownOut
  ELSE IF getUint16(view, 0, FALSE) # MARKER_SOI THEN Returned(1)
  ELSE orientationScan(view, 2)

(***************************************************************************)
(* The segment scans, one iteration at a time                              *)
(***************************************************************************)
Continue(offset) == [kind |-> "continue", offset |-> offset]

Ended == [kind |-> "ended", offset |-> 0]

\* an iteration that adds the segment size to the offset of the marker
\* and not to the offset past it
exifScanStep_FromMarker(view, offset) ==
  IF Throws(view, offset, 2) THEN Ended
  ELSE LET marker == getUint16(view, offset, FALSE)
       IN IF marker = MARKER_APP1 THEN Ended
          ELSE IF marker \div 256 # 255 THEN Ended
          ELSE IF offset + 2 + 2 > byteLength(view) THEN Ended
          ELSE IF Throws(view, offset + 2, 2) THEN Ended
          ELSE Continue(offset + getUint16(view, offset + 2, FALSE))

\* lines 210-275: one iteration of the while loop of extractExifData, entered
\* with offset + 4 < byteLength: it returns, throws or breaks, or goes on
\* at the next offset
exifScanStep(view, offset) ==
  IF Throws(view, offset, 2) THEN Ended
  ELSE LET marker == getUint16(view, offset, FALSE)
       IN IF marker = MARKER_APP1 THEN Ended
          ELSE IF marker \div 256 # 255 THEN Ended
          ELSE IF offset + 2 + 2 > byteLength(view) THEN Ended
          ELSE IF Throws(view, offset + 2, 2) THEN Ended
          ELSE Continue(offset + 2 + getUint16(view, offset + 2, FALSE))

\* lines 308-333: one iteration of the while loop of parseExifOrientation
orientationScanStep(view, offset) ==
  IF Throws(view, offset, 2) THEN Ended
  ELSE LET marker == getUint16(view, offset, FALSE)
       IN IF marker = MARKER_APP1 /\ offset + 2 + 8 < byteLength(view)
          THEN Ended
          ELSE IF marker \div 256 # 255 THEN Ended
          ELSE IF Throws(view, offset + 2, 2) THEN Ended
          ELSE Continue(offset + 2 + getUint16(view, offset + 2, FALSE))

\* the while test of both scans
ScanGoesOn(view, offset) == offset + 4 < byteLength(view)

(***************************************************************************)
(* Frame geometry                                                          *)
(***************************************************************************)
NumAdd(a, b) == Num(a.n * b.d + b.n * a.d, a.d * b.d)

NumMul(a, b) == Num(a.n * b.n, a.d * b.d)

NumDiv(a, b) == Num(a.n * b.d, a.d * b.n)

NumGt(a, b) == a.n * b.d > b.n * a.d

Min(a, b) == IF a < b THEN a ELSE b

AspectPresets == {"original", "4:5", "1:1", "9:16"}

presetToRatio(preset) ==
  CASE preset = "4:5" -> Num(4, 5)
    [] preset = "1:1" -> Int2Num(1)
    [] preset = "9:16" -> Num(9, 16)
    [] OTHER -> undefined

\* the two branches exchanged: the canvas is cut down to the target ratio
CanvasSize_Shrink(contentWidth, contentHeight, borderPx, targetRatio) ==
  LET canvasWidth == NumAdd(Int2Num(contentWidth), NumMul(borderPx, Int2Num(2)))
      canvasHeight ==
        NumAdd(Int2Num(contentHeight), NumMul(borderPx, Int2Num(2)))
  IN IF Falsy(targetRatio)
     THEN [w |-> canvasWidth, h |-> canvasHeight]
     ELSE IF NumGt(NumDiv(canvasWidth, canvasHeight), targetRatio)
     THEN [w |-> NumMul(canvasHeight, targetRatio), h |-> canvasHeight]
     ELSE [w |-> canvasWidth, h |-> NumDiv(canvasWidth, targetRatio)]

\* canvasWidth and canvasHeight before rounding (lines 377-388)
CanvasSize(contentWidth, contentHeight, borderPx, targetRatio) ==
  LET canvasWidth == NumAdd(Int2Num(contentWidth), NumMul(borderPx, Int2Num(2)))
      canvasHeight ==
        NumAdd(Int2Num(contentHeight), NumMul(borderPx, Int2Num(2)))
  IN IF Falsy(targetRatio)
     THEN [w |-> canvasWidth, h |-> canvasHeight]
     ELSE IF NumGt(NumDiv(canvasWidth, canvasHeight), targetRatio)
     THEN [w |-> canvasWidth, h |-> NumDiv(canvasWidth, targetRatio)]
     ELSE [w |-> NumMul(canvasHeight, targetRatio), h |-> canvasHeight]

\* the content drawn at the canvas origin instead of centred
ContentOffset_TopLeft(rounded, content) == 0

\* Math.round((rounded - content) / 2)
ContentOffset(rounded, content) == MathRound(Num(rounded - content, 2)).n

computeFrameLayout(imageWidth, imageHeight, borderPercent, aspectPreset) ==
  LET shortEdge == Min(imageWidth, imageHeight)
      borderPx == Num(shortEdge * borderPercent, 100)
      contentWidth == imageWidth
      contentHeight == imageHeight
      canvas == CanvasSize(contentWidth, contentHeight, borderPx,
                           presetToRatio(aspectPreset))
      roundedWidth == MathRound(canvas.w).n
      roundedHeight == MathRound(canvas.h).n
  IN [canvasWidth |-> roundedWidth,
      canvasHeight |-> roundedHeight,
      contentX |-> ContentOffset(roundedWidth, contentWidth),
      contentY |-> ContentOffset(roundedHeight, contentHeight),
      contentWidth |-> contentWidth,
      contentHeight |-> contentHeight,
      borderPx |-> borderPx]

(***************************************************************************)
(* Oriented size and the safe export scale                                 *)
(***************************************************************************)
IOS_SAFE_PIXEL_LIMIT == 16700000

IOS_SAFE_EDGE_LIMIT == 4096

\* [5, 6, 7].includes(orientation): orientation 8 left out
SwapsAxes_Without8(orientation) == orientation \in {5, 6, 7}

\* [5, 6, 7, 8].includes(orientation)
SwapsAxes(orientation) == orientation \in {5, 6, 7, 8}

getOrientedDimensions(width, height, orientation) ==
  IF SwapsAxes(orientation)
  THEN [width |-> height, height |-> width]
  ELSE [width |-> width, height |-> height]

Max(a, b) == IF a > b THEN a ELSE b

\* a/b < c/d for a, c >= 0 and b, d > 0, by continued fractions, so that
\* no product of two large numbers is formed
RECURSIVE FracLess(_, _, _, _)
FracLess(a, b, c, d) ==
  IF a \div b # c \div d THEN a \div b < c \div d
  ELSE IF c % d = 0 THEN FALSE
  ELSE IF a % b = 0 THEN TRUE
  ELSE FracLess(d, c % d, b, a % b)

\* Math.sqrt of a non-negative number: the root is kept exact, as the
\* number whose square is n/d
MathSqrt(v) == [t |-> "sqrt", n |-> v.n, d |-> v.d]

\* the square of a non-negative number or root
Square(v) ==
  IF v.t = "sqrt" THEN [n |-> v.n, d |-> v.d]
  ELSE [n |-> v.n * v.n, d |-> v.d * v.d]

\* a < b for non-negative finite numbers and roots
RealLess(a, b) == FracLess(Square(a).n, Square(a).d, Square(b).n, Square(b).d)

\* Math.min(a, b)
MathMin(a, b) == IF RealLess(b, a) THEN b ELSE a

\* the edge limit applied to the shorter edge
EdgeScale_ShortEdge(width, height) ==
  MathMin(Int2Num(1), Num(IOS_SAFE_EDGE_LIMIT, Min(width, height)))

\* Math.min(1, IOS_SAFE_EDGE_LIMIT / Math.max(width, height))
EdgeScale(width, height) ==
  MathMin(Int2Num(1), Num(IOS_SAFE_EDGE_LIMIT, Max(width, height)))

\* Math.min(1, Math.sqrt(IOS_SAFE_PIXEL_LIMIT / (width * height)))
PixelScale(width, height) ==
  MathMin(Int2Num(1), MathSqrt(Num(IOS_SAFE_PIXEL_LIMIT, width * height)))

computeSafeScale(width, height) ==
  MathMin(PixelScale(width, height), EdgeScale(width, height))

\* the largest k in lo .. hi - 1 with k / edge <= root, for a root below 1
\* (0 / edge is not above it, hi / edge is)
RECURSIVE FloorOfRoot(_, _, _, _)
FloorOfRoot(edge, root, lo, hi) ==
  IF hi - lo <= 1 THEN lo
  ELSE IF FracLess(root.n, root.d, ((lo + hi) \div 2) * ((lo + hi) \div 2),
                   edge * edge)
  THEN FloorOfRoot(edge, root, lo, (lo + hi) \div 2)
  ELSE FloorOfRoot(edge, root, (lo + hi) \div 2, hi)

\* Math.floor(edge * scale)
FloorScaled(edge, appliedScale) ==
  IF appliedScale.t = "sqrt"
  THEN FloorOfRoot(edge, appliedScale, 0, edge)
  ELSE (edge * appliedScale.n) \div appliedScale.d

\* Math.max(1, Math.round(edge * scale)): the edge rounded to the nearest
ExportEdge_Rounded(edge, appliedScale) ==
  Max(1, IF FloorScaled(2 * edge, appliedScale) % 2 = 1
         THEN FloorScaled(edge, appliedScale) + 1
         ELSE FloorScaled(edge, appliedScale))

\* Math.max(1, Math.floor(edge * appliedScale))
ExportEdge(edge, appliedScale) == Max(1, FloorScaled(edge, appliedScale))

\* lines 233-238: the canvas renderExport creates for a layout
createExportCanvas(canvasWidth, canvasHeight, mode) ==
  [mode |-> mode,
   width |-> ExportEdge(canvasWidth,
               IF mode = "safe"
               THEN computeSafeScale(canvasWidth, canvasHeight)
               ELSE Int2Num(1)),
   height |-> ExportEdge(canvasHeight,
                IF mode = "safe"
                THEN computeSafeScale(canvasWidth, canvasHeight)
                ELSE Int2Num(1))]

(***************************************************************************)
(* The orientation transform                                               *)
(***************************************************************************)
\* A 2D context: its current transform x' = a x + c y + e, y' = b x + d y + f
\* and the transform calls issued on it.
NewContext ==
  [m |-> [a |-> 1, b |-> 0, c |-> 0, d |-> 1, e |-> 0, f |-> 0],
   calls |-> <<>>]

\* ctx.translate(tx, ty)
Translate(ctx, tx, ty) ==
  [m |-> [ctx.m EXCEPT !.e = ctx.m.a * tx + ctx.m.c * ty + ctx.m.e,
                       !.f = ctx.m.b * tx + ctx.m.d * ty + ctx.m.f],
   calls |-> Append(ctx.calls, [op |-> "translate", quarters |-> 0])]

\* ctx.scale(sx, sy)
Scale(ctx, sx, sy) ==
  [m |-> [ctx.m EXCEPT !.a = ctx.m.a * sx, !.b = ctx.m.b * sx,
                       !.c = ctx.m.c * sy, !.d = ctx.m.d * sy],
   calls |-> Append(ctx.calls, [op |-> "scale", quarters |-> 0])]

\* cosine and sine of quarters * PI / 2
Cos(quarters) == CASE quarters % 4 = 0 -> 1 [] quarters % 4 = 2 -> -1
                   [] OTHER -> 0

Sin(quarters) == CASE quarters % 4 = 1 -> 1 [] quarters % 4 = 3 -> -1
                   [] OTHER -> 0

\* ctx.rotate(quarters * 0.5 * Math.PI): clockwise on the canvas
Rotate(ctx, quarters) ==
  [m |-> [ctx.m EXCEPT
            !.a = ctx.m.a * Cos(quarters) + ctx.m.c * Sin(quarters),
            !.b = ctx.m.b * Cos(quarters) + ctx.m.d * Sin(quarters),
            !.c = ctx.m.c * Cos(quarters) - ctx.m.a * Sin(quarters),
            !.d = ctx.m.d * Cos(quarters) - ctx.m.b * Sin(quarters)],
   calls |-> Append(ctx.calls, [op |-> "rotate", quarters |-> quarters % 4])]

\* where the current transform takes the point (px, py)
Transformed(ctx, px, py) ==
  <<ctx.m.a * px + ctx.m.c * py + ctx.m.e,
    ctx.m.b * px + ctx.m.d * py + ctx.m.f>>

applyOrientationTransform(ctx, orientation, width, height) ==
  CASE orientation = 2 -> Scale(Translate(ctx, width, 0), -1, 1)
    [] orientation = 3 -> Rotate(Translate(ctx, width, height), 2)
    [] orientation = 4 -> Scale(Translate(ctx, 0, height), 1, -1)
    [] orientation = 5 -> Scale(Rotate(ctx, 1), 1, -1)
    [] orientation = 6 -> Translate(Rotate(ctx, 1), 0, -height)
    [] orientation = 7 ->
         Scale(Translate(Rotate(ctx, 1), width, -height), -1, 1)
    [] orientation = 8 -> Translate(Rotate(ctx, -1), -width, 0)
    [] OTHER -> ctx

\* ctx.drawImage(..., 0, 0, dw, dh): the corners the destination rectangle
\* is drawn to, and the calls issued after ctx.translate(x, y)
DrawImage(ctx, dw, dh) ==
  [corners |-> {Transformed(ctx, 0, 0), Transformed(ctx, dw, 0),
                Transformed(ctx, 0, dh), Transformed(ctx, dw, dh)},
   calls |-> Tail(ctx.calls)]

\* the same width and height arguments for every orientation
drawOriented_Unswapped(orientation, x, y, targetWidth, targetHeight) ==
  DrawImage(applyOrientationTransform(Translate(NewContext, x, y),
                                      orientation, targetWidth, targetHeight),
            targetWidth, targetHeight)

\* part_001 lines 721-732
drawOriented(orientation, x, y, targetWidth, targetHeight) ==
  IF orientation \in {5, 6, 7, 8}
  THEN DrawImage(applyOrientationTransform(Translate(NewContext, x, y),
                   orientation, targetHeight, targetWidth),
                 targetHeight, targetWidth)
  ELSE DrawImage(applyOrientationTransform(Translate(NewContext, x, y),
                   orientation, targetWidth, targetHeight),
                 targetWidth, targetHeight)

(***************************************************************************)
(* The EXIF caption                                                        *)
(***************************************************************************)
\* "{aperture}"
PlaceholderAperture ==
  <<123, 97, 112, 101, 114, 116, 117, 114, 101, 125>>

\* "{shutter}"
PlaceholderShutter ==
  <<123, 115, 104, 117, 116, 116, 101, 114, 125>>

\* "{iso}"
PlaceholderIso ==
  <<123, 105, 115, 111, 125>>

\* "{focal}"
PlaceholderFocal ==
  <<123, 102, 111, 99, 97, 108, 125>>

\* "{camera}"
PlaceholderCamera ==
  <<123, 99, 97, 109, 101, 114, 97, 125>>

\* "{lens}"
PlaceholderLens ==
  <<123, 108, 101, 110, 115, 125>>

\* "{date}"
PlaceholderDate ==
  <<123, 100, 97, 116, 101, 125>>

\* GetSubstitution of a string match, which has no captures: in the
\* replacement text "$$" stands for "$", "$&" for the matched text, "$`" for
\* the text before the match and "$'" for the text after it; position is
\* the index of the first code unit of the match
RECURSIVE GetSubstitution(_, _, _, _, _)
GetSubstitution(matched, str, position, replacement, i) ==
  IF i > Len(replacement) THEN <<>>
  ELSE IF replacement[i] = 36 /\ i < Len(replacement)
  THEN CASE replacement[i + 1] = 36 ->
              <<36>> \o GetSubstitution(matched, str, position, replacement,
                                        i + 2)
         [] replacement[i + 1] = 38 ->
              matched \o GetSubstitution(matched, str, position, replacement,
                                         i + 2)
         [] replacement[i + 1] = 96 ->
              SubSeq(str, 1, position - 1)
                \o GetSubstitution(matched, str, position, replacement, i + 2)
         [] replacement[i + 1] = 39 ->
              SubSeq(str, position + Len(matched), Len(str))
                \o GetSubstitution(matched, str, position, replacement, i + 2)
         [] OTHER ->
              <<36>> \o GetSubstitution(matched, str, position, replacement,
                                        i + 1)
  ELSE <<replacement[i]>>
         \o GetSubstitution(matched, str, position, replacement, i + 1)

\* the search string occurs in str at position
MatchesAt(str, searchValue, position) ==
  /\ position + Len(searchValue) - 1 <= Len(str)
  /\ SubSeq(str, position, position + Len(searchValue) - 1) = searchValue

\* str.replaceAll(searchValue, replaceValue) from position on: the matches
\* are found in str from left to right without overlap and the result is
\* not searched again
RECURSIVE replaceAllFrom(_, _, _, _)
replaceAllFrom(str, searchValue, replaceValue, position) ==
  IF position > Len(str) THEN <<>>
  ELSE IF MatchesAt(str, searchValue, position)
  THEN GetSubstitution(searchValue, str, position, replaceValue, 1)
         \o replaceAllFrom(str, searchValue, replaceValue,
                           position + Len(searchValue))
  ELSE <<str[position]>>
         \o replaceAllFrom(str, searchValue, replaceValue, position + 1)

replaceAll(str, searchValue, replaceValue) ==
  replaceAllFrom(str, searchValue, replaceValue, 1)

\* data.field ?? '-' (the dash is U+2014)
FieldText(v) == IF v.t = "undefined" THEN EmDash ELSE v.c

renderExifLine(data, template) ==
  replaceAll(
    replaceAll(
      replaceAll(
        replaceAll(
          replaceAll(
            replaceAll(
              replaceAll(template, PlaceholderAperture,
                         FieldText(data.aperture)),
              PlaceholderShutter, FieldText(data.shutter)),
            PlaceholderIso, FieldText(data.iso)),
          PlaceholderFocal, FieldText(data.focal)),
        PlaceholderCamera, FieldText(data.camera)),
      PlaceholderLens, FieldText(data.lens)),
    PlaceholderDate, FieldText(data.date))

(***************************************************************************)
(* The page: export controls and export                                    *)
(***************************************************************************)
ExportPresets == {"instagram", "ultra", "png"}

\* lines 61-69; quality is kept as an exact fraction
applyExportPreset(preset) ==
  IF preset = "ultra"
  THEN [exportFormat |-> "jpeg", quality |-> Num(99, 100),
        resolutionMode |-> "original", stripMetadata |-> TRUE]
  ELSE IF preset = "png"
  THEN [exportFormat |-> "png", quality |-> Int2Num(1),
        resolutionMode |-> "safe", stripMetadata |-> TRUE]
  ELSE [exportFormat |-> "jpeg", quality |-> Num(92, 100),
        resolutionMode |-> "safe", stripMetadata |-> TRUE]

\* the status messages of handleFileChange and handleExport
STATUS_READY == "Ready. Fine-tune your frame and export."

\* the source ends this message with U+2026, written here as three dots
STATUS_PREPARING == "Preparing export..."

STATUS_FALLBACK ==
  "Original export hit an iPhone/browser memory limit. Exported at Max Safe size instead."

STATUS_PNG == "PNG exported. Note: PNG files can be very large."

STATUS_PRESERVED ==
  "Export complete. Metadata preservation may vary by browser."

STATUS_STRIPPED == "Export complete. Metadata stripped."

STATUS_FAILED == "Export failed. Try Max Safe or PNG."

\* statusMessage.includes('memory limit')
IncludesMemoryLimit(message) == message = STATUS_FALLBACK

null == [t |-> "null"]

\* file.type === 'image/jpeg' || /\.(jpe?g)$/i.test(file.name)
isLikelyJpeg(sourceFile) ==
  sourceFile.type = "image/jpeg" \/ sourceFile.jpegName

\* the reuse of the source file decided without looking at stripMetadata
canReuseOriginal_IgnoringStrip(snap, mode) ==
  /\ mode = "original"
  /\ snap.exportFormat = "jpeg"
  /\ isLikelyJpeg(snap.image.sourceFile)
  /\ snap.thickness = 0
  /\ snap.aspect = "original"
  /\ ~snap.paperTexture
  /\ ~snap.cropMode
  /\ snap.pan.x = 0
  /\ snap.pan.y = 0
  /\ ~snap.watermarkEnabled
  /\ ~snap.exifEnabled

\* lines 213-225, over the state the handler closed over
canReuseOriginal(snap, mode) ==
  /\ mode = "original"
  /\ snap.exportFormat = "jpeg"
  /\ isLikelyJpeg(snap.image.sourceFile)
  /\ ~snap.stripMetadata
  /\ snap.thickness = 0
  /\ snap.aspect = "original"
  /\ ~snap.paperTexture
  /\ ~snap.cropMode
  /\ snap.pan.x = 0
  /\ snap.pan.y = 0
  /\ ~snap.watermarkEnabled
  /\ ~snap.exifEnabled

\* image.sourceFile handed back as it is; `image` is the image the file
\* comes from
SourceFile(snap) ==
  [origin |-> "source", type |-> snap.image.sourceFile.type,
   mode |-> "original", image |-> snap.image]

\* new File([blob], `${image.fileName}-aperture-frame.${extension}`,
\* {type: mime}) of a canvas encoding of the closed-over image
CanvasFile(snap, mode) ==
  [origin |-> "canvas",
   type |-> IF snap.exportFormat = "png" THEN "image/png" ELSE "image/jpeg",
   mode |-> mode, image |-> snap.image]

\* the last mode renderExport was called with
LastMode(modes) == modes[Len(modes)]

\* renderExport up to its return, its throw or its await of canvasToBlob;
\* drawThrows: drawFramedImage throws 'Canvas unavailable'
renderExport(st, mode, drawThrows) ==
  IF canReuseOriginal(st.run.snap, mode)
  THEN [state |-> "fulfilled",
        page |-> [st.page EXCEPT !.progress = 100],
        run |-> [st.run EXCEPT !.modes = Append(@, mode)]]
  ELSE IF drawThrows
  THEN [state |-> "rejected",
        page |-> [st.page EXCEPT !.progress = 35],
        run |-> [st.run EXCEPT !.modes = Append(@, mode)]]
  ELSE [state |-> "pending",
        page |-> [st.page EXCEPT !.progress = 72],
        run |-> [st.run EXCEPT !.modes = Append(@, mode), !.pc = "rendering"]]

\* lines 312-317: the message after a stored export, from the closed-over
\* exportFormat, stripMetadata and statusMessage
FinalStatus(snap, current) ==
  IF snap.exportFormat = "png" THEN STATUS_PNG
  ELSE IF ~snap.stripMetadata THEN STATUS_PRESERVED
  ELSE IF ~IncludesMemoryLimit(snap.statusMessage) THEN STATUS_STRIPPED
  ELSE current

\* lines 309-324 after a render that gave `exported`
Stored(st, exported) ==
  [page |-> [st.page EXCEPT
               !.sharedFile = exported,
               !.statusMessage = FinalStatus(st.run.snap, @),
               !.isExporting = FALSE],
   run |-> [st.run EXCEPT !.pc = "idle", !.outcome = "stored",
                          !.snap = null,
                          !.downloaded = exported,
                          !.timers = @ + 1]]

\* the failure path without the finally block
Failed_NoFinally(st) ==
  [page |-> [st.page EXCEPT !.statusMessage = STATUS_FAILED],
   run |-> [st.run EXCEPT !.pc = "idle", !.outcome = "failed",
                          !.snap = null]]

\* lines 319-324 after a render failure that is not retried
Failed(st) ==
  [page |-> [st.page EXCEPT !.statusMessage = STATUS_FAILED,
                            !.isExporting = FALSE],
   run |-> [st.run EXCEPT !.pc = "idle", !.outcome = "failed",
                          !.snap = null,
                          !.timers = @ + 1]]

\* a failed first render is retried whatever its mode was
RetriesAfterFailure_Always(snap, modes) == Len(modes) = 1

\* line 301: the catch block retries when the closed-over resolutionMode
\* is 'original'; the retry runs inside the catch block, so its own
\* failure goes to the outer catch
RetriesAfterFailure(snap, modes) ==
  Len(modes) = 1 /\ snap.resolutionMode = "original"

\* the handler from a settled render on
AfterRender(r, exported) ==
  IF r.state = "fulfilled" THEN Stored(r, exported)
  ELSE IF r.state = "rejected" THEN Failed(r)
  ELSE [page |-> r.page, run |-> r.run]

\* lines 300-306: the catch block of the first render
AfterRejection(st, drawThrows) ==
  IF RetriesAfterFailure(st.run.snap, st.run.modes)
  THEN AfterRender(
         renderExport(
           [page |-> [st.page EXCEPT !.statusMessage = STATUS_FALLBACK],
            run |-> st.run],
           "safe", drawThrows),
         CanvasFile(st.run.snap, "safe"))
  ELSE Failed(st)

\* the state handleExport and renderExport read from their closure: the
\* values of the render in which the click happened
Closure(pg) ==
  [exportFormat |-> pg.exportFormat, resolutionMode |-> pg.resolutionMode,
   stripMetadata |-> pg.stripMetadata, statusMessage |-> pg.statusMessage,
   image |-> pg.image, thickness |-> pg.thickness, aspect |-> pg.aspect,
   paperTexture |-> pg.paperTexture, cropMode |-> pg.cropMode,
   pan |-> pg.pan, watermarkEnabled |-> pg.watermarkEnabled,
   exifEnabled |-> pg.exifEnabled]

\* lines 291-298: the handler from the click to its first render
Started(pg, rn) ==
  [page |-> [pg EXCEPT !.isExporting = TRUE, !.progress = 5,
                       !.statusMessage = STATUS_PREPARING],
   run |-> [rn EXCEPT !.snap = Closure(pg), !.modes = <<>>,
                      !.outcome = "none"]]

\* the first render and what follows it without a pause
FirstRender(st, drawThrows, retryThrows) ==
  IF renderExport(st, st.run.snap.resolutionMode, drawThrows).state
       = "rejected"
  THEN AfterRejection(
         renderExport(st, st.run.snap.resolutionMode, drawThrows),
         retryThrows)
  ELSE AfterRender(
         renderExport(st, st.run.snap.resolutionMode, drawThrows),
         SourceFile(st.run.snap))

(***************************************************************************)
(* The page: loading a file                                                *)
(***************************************************************************)
\* the source ends this message with U+2026, written here as three dots
STATUS_DECODING == "Decoding photo..."

STATUS_UNAVAILABLE ==
  "Ready. Metadata unavailable for this file in current browser."

\* lines 173-174: handleFileChange up to its first await
FileChosen(pg) ==
  [pg EXCEPT !.statusMessage = STATUS_DECODING, !.sharedFile = null]

\* lines 195-202: the image state made from a decoded file
ImageOf(f) ==
  [sourceFile |-> f.sourceFile, orientation |-> f.orientation,
   fileName |-> f.name]

\* lines 195-207: setImage and the closing status message
ImageSet(pg, f) ==
  [pg EXCEPT !.image = ImageOf(f),
             !.statusMessage = IF f.unavailable THEN STATUS_UNAVAILABLE
                               ELSE STATUS_READY]

\* line 179: setExifData(parsedExif)
ExifDataOf(f) == [of |-> f.name, unavailable |-> f.unavailable]

(***************************************************************************)
(* Input files: a JPEG/EXIF encoder over abstract scenarios                *)
(***************************************************************************)
\* the largest Orientation value stored in an input file
MaxOrientation == 9

\* image widths and heights range over 1 .. MaxDim (and 3000, 4000)
MaxDim == 10

U16(v, little) ==
  IF little THEN <<v % 256, v \div 256>> ELSE <<v \div 256, v % 256>>

\* also the two's complement form of a negative 32-bit value
U32(v, little) ==
  LET b0 == v % 256
      b1 == (v \div 256) % 256
      b2 == (v \div 65536) % 256
      b3 == (v \div 16777216) % 256
  IN IF little THEN <<b0, b1, b2, b3>> ELSE <<b3, b2, b1, b0>>

Ascii(tag, codes) ==
  [tag |-> tag, type |-> 2, count |-> Len(codes) + 1, vals |-> codes]

Short(tag, v) == [tag |-> tag, type |-> 3, count |-> 1, vals |-> <<v>>]

Long(tag, v) == [tag |-> tag, type |-> 4, count |-> 1, vals |-> <<v>>]

Rational(tag, n, d) ==
  [tag |-> tag, type |-> 5, count |-> 1, vals |-> <<n, d>>]

SRational(tag, n, d) ==
  [tag |-> tag, type |-> 10, count |-> 1, vals |-> <<n, d>>]

Rationals(tag, flat) ==
  [tag |-> tag, type |-> 5, count |-> Len(flat) \div 2, vals |-> flat]

RECURSIVE Words(_, _, _)
Words(vals, wide, little) ==
  IF vals = <<>> THEN <<>>
  ELSE (IF wide THEN U32(Head(vals), little) ELSE U16(Head(vals), little))
       \o Words(Tail(vals), wide, little)

ValueBytes(e, little) ==
  CASE e.type = 2 -> e.vals \o <<0>>
    [] e.type = 3 -> Words(e.vals, FALSE, little)
    [] OTHER -> Words(e.vals, TRUE, little)

Pad4(bytes) == bytes \o [k \in 1..(4 - Len(bytes)) |-> 0]

\* the 12-byte entries and the value area of a directory whose values
\* longer than 4 bytes are stored from TIFF-relative offset dataOff on
RECURSIVE EncodeEntries(_, _, _, _)
EncodeEntries(entries, little, k, dataOff) ==
  IF k > Len(entries) THEN [dir |-> <<>>, data |-> <<>>]
  ELSE LET e == entries[k]
           bytes == ValueBytes(e, little)
           inline == Len(bytes) <= 4
           rest == EncodeEntries(entries, little, k + 1,
                     IF inline THEN dataOff ELSE dataOff + Len(bytes))
       IN [dir |-> U16(e.tag, little) \o U16(e.type, little)
                   \o U32(e.count, little)
                   \o (IF inline THEN Pad4(bytes) ELSE U32(dataOff, little))
                   \o rest.dir,
           data |-> (IF inline THEN <<>> ELSE bytes) \o rest.data]

EncodeIFD(entries, little, ifdRel) ==
  LET enc == EncodeEntries(entries, little, 1,
                           ifdRel + 2 + 12 * Len(entries) + 4)
  IN U16(Len(entries), little) \o enc.dir \o U32(0, little) \o enc.data

\* TIFF-relative offset of the GPS IFD, stored after the EXIF sub-IFD
GpsRel(sc, exifRel) ==
  IF sc.exifIfd = <<>> THEN exifRel
  ELSE exifRel + Len(EncodeIFD(sc.exifIfd, sc.little, exifRel))

\* IFD0 as stored: the scenario's entries, then the pointer to the EXIF
\* sub-IFD (placed right after IFD0's value area) when there is a sub-IFD
\* and the GPS IFD pointer (tag 0x8825) when there is a GPS IFD
Ifd0Entries(sc, exifRel) ==
  sc.ifd0
  \o (IF sc.exifIfd = <<>> THEN <<>>
      ELSE <<Long(TAG_EXIF_IFD_POINTER, exifRel)>>)
  \o (IF sc.gps = <<>> THEN <<>> ELSE <<Long(34853, GpsRel(sc, exifRel))>>)

EncodeTiff(sc) ==
  LET ifd0Len == Len(EncodeIFD(Ifd0Entries(sc, 0), sc.little, 8))
      exifRel == 8 + ifd0Len
  IN (IF sc.little THEN <<73, 73>> ELSE <<77, 77>>)
     \o U16(42, sc.little) \o U32(sc.ifdOff, sc.little)
     \o EncodeIFD(Ifd0Entries(sc, exifRel), sc.little, 8)
     \o (IF sc.exifIfd = <<>> THEN <<>>
         ELSE EncodeIFD(sc.exifIfd, sc.little, exifRel))
     \o (IF sc.gps = <<>> THEN <<>>
         ELSE EncodeIFD(sc.gps, sc.little, GpsRel(sc, exifRel)))

\* the segment that precedes APP1, if any
PreSegment(pre) ==
  CASE pre = "app0" -> <<255, 224, 0, 4, 74, 70>>
    [] pre = "corrupt" -> <<18, 52, 0, 4, 74, 70>>
    [] pre = "xmp" -> <<255, 225, 0, 4, 104, 116>>
    [] OTHER -> <<>>

EncodeJpeg(sc) ==
  LET tiff == EncodeTiff(sc)
  IN (IF sc.soi THEN <<255, 216>> ELSE <<255, 217>>)
     \o PreSegment(sc.pre)
     \o <<255, 225>> \o U16(8 + Len(tiff), FALSE)
     \o (IF sc.sig THEN <<69, 120, 105, 102>> ELSE <<69, 120, 105, 103>>)
     \o <<0, 0>>
     \o tiff

\* the file of a scenario: its encoding, cut to its first sc.keep bytes
FileOf(sc) ==
  LET full == EncodeJpeg(sc)
  IN [bytes |-> SubSeq(full, 1, Min(sc.keep, Len(full))),
      readable |-> sc.readable]

(***************************************************************************)
(* Scenarios                                                               *)
(***************************************************************************)
TextFuji == <<70, 117, 106, 105>>                    \* "Fuji"
TextX1 == <<88, 49>>                                 \* "X1"
TextX100V == <<88, 49, 48, 48, 86>>                  \* "X100V"
TextPaddedX100V == <<32>> \o TextX100V \o <<32>>     \* " X100V "
TextBlank == <<32, 32>>                              \* "  "
TextXF23 == <<88, 70, 50, 51>>                       \* "XF23"
TextDate ==                                          \* "2024:01:02 03:04"
  <<50, 48, 50, 52, 58, 48, 49, 58, 48, 50, 32, 48, 51, 58, 48, 52>>

\* a field of a directory: absent, or one of the given entries
Opt(entries) == {<<>>} \cup {<<e>> : e \in entries}

MakeOpts == Opt({Ascii(TAG_MAKE, TextFuji), Ascii(TAG_MAKE, TextBlank)})

ModelOpts ==
  Opt({Ascii(TAG_MODEL, TextX1), Ascii(TAG_MODEL, TextPaddedX100V),
       Ascii(TAG_MODEL, TextBlank)})

OrientOpts == Opt({Short(TAG_ORIENTATION, v) : v \in 0..MaxOrientation})

FNumberOpts ==
  Opt({Rational(EXIF_TAG_FNUMBER, 2, 1), Rational(EXIF_TAG_FNUMBER, 28, 10),
       Rational(EXIF_TAG_FNUMBER, 0, 1), Rational(EXIF_TAG_FNUMBER, 4, 0)})

ApertureValueOpts ==
  Opt({SRational(EXIF_TAG_APERTURE_VALUE, n, 1) : n \in {0, 2, -2, 4000}}
      \cup {SRational(EXIF_TAG_APERTURE_VALUE, 6, 0)})

ExposureTimeOpts ==
  Opt({Rational(EXIF_TAG_EXPOSURE_TIME, 1, 250),
       Rational(EXIF_TAG_EXPOSURE_TIME, 2, 1),
       Rational(EXIF_TAG_EXPOSURE_TIME, 0, 1),
       Rational(EXIF_TAG_EXPOSURE_TIME, 1, 0)})

ShutterSpeedOpts ==
  Opt({SRational(EXIF_TAG_SHUTTER_SPEED_VALUE, n, 1) :
         n \in {0, 8, -1, -2000, 2000}})

IsoOpts ==
  Opt({Short(EXIF_TAG_ISO, 400), Short(EXIF_TAG_ISO, 0),
       Long(EXIF_TAG_ISO, 100)})

SensitivityOpts == Opt({Long(EXIF_TAG_PHOTOGRAPHIC_SENSITIVITY, 800)})

FocalOpts ==
  Opt({Rational(EXIF_TAG_FOCAL_LENGTH, 23, 1),
       Rational(EXIF_TAG_FOCAL_LENGTH, 35, 2),
       Rational(EXIF_TAG_FOCAL_LENGTH, 0, 1),
       Rational(EXIF_TAG_FOCAL_LENGTH, 23, 0)})

LensModelOpts ==
  Opt({Ascii(EXIF_TAG_LENS_MODEL, TextXF23),
       Ascii(EXIF_TAG_LENS_MODEL, TextBlank)})

\* LensSpecification as stored: min focal, max focal, min aperture, max
\* aperture, each a numerator and a denominator
LensSpecs ==
  {<<18, 1, 55, 1, 35, 10, 56, 10>>,
   <<23, 1, 23, 1, 2, 1, 2, 1>>,
   <<18, 1, 55, 0, 35, 10, 56, 10>>,
   <<18, 0, 55, 1, 35, 10, 56, 10>>,
   <<18, 1, 55, 1, 35, 10, 56, 0>>,
   <<18, 1, 55, 1>>}

LensSpecOpts ==
  Opt({Rationals(EXIF_TAG_LENS_SPECIFICATION, spec) : spec \in LensSpecs})

DateOpts == Opt({Ascii(EXIF_TAG_DATE_TIME_ORIGINAL, TextDate)})

\* the EXIF sub-IFDs of the input files, one family per group of tags
ExifIfds ==
  {f \o a : f \in FNumberOpts, a \in ApertureValueOpts}
  \cup {e \o v : e \in ExposureTimeOpts, v \in ShutterSpeedOpts}
  \cup {i \o p : i \in IsoOpts, p \in SensitivityOpts}
  \cup {m \o l : m \in LensModelOpts, l \in LensSpecOpts}
  \cup {f \o d : f \in FocalOpts, d \in DateOpts}

SmallExifIfd ==
  <<Rational(EXIF_TAG_FNUMBER, 28, 10), Ascii(EXIF_TAG_LENS_MODEL, TextXF23)>>

FullIfd0 ==
  <<Ascii(TAG_MAKE, TextFuji), Ascii(TAG_MODEL, TextX1),
    Short(TAG_ORIENTATION, 6)>>

\* an offset far beyond the end of every input file
FarOffset == 4000

BaseScenario ==
  [soi |-> TRUE, pre |-> "none", sig |-> TRUE, little |-> TRUE, ifdOff |-> 8,
   ifd0 |-> FullIfd0, exifIfd |-> SmallExifIfd, gps |-> <<>>, keep |-> 0,
   readable |-> TRUE]

Whole(sc) == [sc EXCEPT !.keep = Len(EncodeJpeg(sc))]

\* the ways the framing of the base file is varied
Framings ==
  {BaseScenario,
   [BaseScenario EXCEPT !.soi = FALSE],
   [BaseScenario EXCEPT !.pre = "app0"],
   [BaseScenario EXCEPT !.pre = "corrupt"],
   [BaseScenario EXCEPT !.pre = "xmp"],
   [BaseScenario EXCEPT !.sig = FALSE],
   [BaseScenario EXCEPT !.ifdOff = FarOffset]}

\* every framing in both byte orders, cut at every length
TruncatedScenarios ==
  UNION {{[sc EXCEPT !.little = l, !.keep = k] :
            k \in 0..Len(EncodeJpeg(sc))} :
         sc \in Framings, l \in BOOLEAN}

CameraScenarios ==
  {Whole([BaseScenario EXCEPT !.little = l, !.ifd0 = mk \o md \o o,
                              !.exifIfd = x]) :
     l \in BOOLEAN, mk \in MakeOpts, md \in ModelOpts, o \in OrientOpts,
     x \in {<<>>, SmallExifIfd}}

ValueScenarios ==
  {Whole([BaseScenario EXCEPT !.little = l, !.exifIfd = x]) :
     l \in BOOLEAN, x \in ExifIfds \ {<<>>}}

UnreadableScenarios ==
  {[Whole(sc) EXCEPT !.readable = FALSE] : sc \in Framings}

\* a GPS IFD: GPSLatitudeRef "N" and GPSLatitude 48 deg 51' 30"
GpsIfd == <<Ascii(1, <<78>>), Rationals(2, <<48, 1, 51, 1, 30, 1>>)>>

\* IFD0 tags that are not consulted: Orientation and DateTime (0x0132)
Ifd0Extras == <<Short(TAG_ORIENTATION, 6), Ascii(306, TextDate)>>

\* EXIF tags that are not consulted: ColorSpace (0xA001) and
\* PixelXDimension (0xA002)
ExifExtras == <<Short(40961, 1), Long(40962, 4000)>>

BelowExifExtras(e) == e.tag < 40961

AboveExifExtras(e) == e.tag > 40962

\* whole files with and without tags that extraction does not consult
PrivacyScenarios ==
  {Whole([BaseScenario EXCEPT
            !.little = l,
            !.ifd0 = core0 \o extra0,
            !.exifIfd = SelectSeq(coreX, BelowExifExtras) \o extraX
                          \o SelectSeq(coreX, AboveExifExtras),
            !.gps = g]) :
     l \in BOOLEAN,
     core0 \in {<<Ascii(TAG_MAKE, TextFuji), Ascii(TAG_MODEL, TextX1)>>,
                <<Ascii(TAG_MAKE, TextFuji)>>},
     extra0 \in {<<>>, Ifd0Extras},
     coreX \in {SmallExifIfd,
                <<SRational(EXIF_TAG_SHUTTER_SPEED_VALUE, 8, 1),
                  Ascii(EXIF_TAG_DATE_TIME_ORIGINAL, TextDate)>>},
     extraX \in {<<>>, ExifExtras},
     g \in {<<>>, GpsIfd}}

\* a file whose only EXIF entry is a LensSpecification of four rationals,
\* cut at every length
CutValueScenarios ==
  {[BaseScenario EXCEPT
      !.exifIfd = <<Rationals(EXIF_TAG_LENS_SPECIFICATION,
                              <<18, 1, 55, 1, 35, 10, 56, 10>>)>>,
      !.little = l, !.keep = k] :
     l \in BOOLEAN,
     k \in 0..Len(EncodeJpeg([BaseScenario EXCEPT
              !.exifIfd = <<Rationals(EXIF_TAG_LENS_SPECIFICATION,
                                      <<18, 1, 55, 1, 35, 10, 56, 10>>)>>]))}

Scenarios ==
  TruncatedScenarios \cup CameraScenarios \cup ValueScenarios
  \cup UnreadableScenarios \cup PrivacyScenarios \cup CutValueScenarios

\* "{date}"
TextBraceDate ==
  <<123, 100, 97, 116, 101, 125>>

\* "{lens}"
TextBraceLens ==
  <<123, 108, 101, 110, 115, 125>>

\* "X$&1"
TextDollar ==
  <<88, 36, 38, 49>>

\* the caption templates of the page
\* full: "{focal}mm • ƒ/{aperture} • {shutter} • ISO {iso}"
TEMPLATE_FULL ==
  <<123, 102, 111, 99, 97, 108, 125, 109, 109, 32, 8226, 32, 402, 47, 123,
    97, 112, 101, 114, 116, 117, 114, 101, 125, 32, 8226, 32, 123, 115,
    104, 117, 116, 116, 101, 114, 125, 32, 8226, 32, 73, 83, 79, 32, 123,
    105, 115, 111, 125>>

\* basic: "ƒ/{aperture} • {shutter} • ISO {iso}"
TEMPLATE_BASIC ==
  <<402, 47, 123, 97, 112, 101, 114, 116, 117, 114, 101, 125, 32, 8226, 32,
    123, 115, 104, 117, 116, 116, 101, 114, 125, 32, 8226, 32, 73, 83, 79,
    32, 123, 105, 115, 111, 125>>

\* gear: "{camera} • {lens}"
TEMPLATE_GEAR ==
  <<123, 99, 97, 109, 101, 114, 97, 125, 32, 8226, 32, 123, 108, 101, 110,
    115, 125>>

\* fuji: "{lens} • f/{aperture} • {shutter} • ISO {iso}"
TEMPLATE_FUJI ==
  <<123, 108, 101, 110, 115, 125, 32, 8226, 32, 102, 47, 123, 97, 112, 101,
    114, 116, 117, 114, 101, 125, 32, 8226, 32, 123, 115, 104, 117, 116,
    116, 101, 114, 125, 32, 8226, 32, 73, 83, 79, 32, 123, 105, 115, 111,
    125>>

EXIF_TEMPLATES == {TEMPLATE_FULL, TEMPLATE_BASIC, TEMPLATE_GEAR, TEMPLATE_FUJI}

\* templates that repeat a placeholder and carry text that is none
\* "{date} {camera} {date}"
TemplateRepeated ==
  <<123, 100, 97, 116, 101, 125, 32, 123, 99, 97, 109, 101, 114, 97, 125,
    32, 123, 100, 97, 116, 101, 125>>

\* "{camera {model} {lens}}"
TemplateLoose ==
  <<123, 99, 97, 109, 101, 114, 97, 32, 123, 109, 111, 100, 101, 108, 125,
    32, 123, 108, 101, 110, 115, 125, 125>>

Templates == EXIF_TEMPLATES \cup {TemplateRepeated, TemplateLoose}

\* files whose camera, lens and date texts are captioned
RenderScenarios ==
  {Whole([BaseScenario EXCEPT !.ifd0 = md, !.exifIfd = fn \o ln \o dt]) :
     md \in Opt({Ascii(TAG_MODEL, t) :
                   t \in {TextX1, TextBraceDate, TextBraceLens, TextDollar}}),
     fn \in Opt({Rational(EXIF_TAG_FNUMBER, 28, 10)}),
     ln \in Opt({Ascii(EXIF_TAG_LENS_MODEL, t) :
                   t \in {TextXF23, TextBraceDate}}),
     dt \in DateOpts}

Dims == (1..MaxDim) \cup {3000, 4000}

BorderPercents == 0..30

(***************************************************************************)
(* State machine                                                           *)
(***************************************************************************)
PendingExif == [state |-> "pending", value |-> Unavailable]

PendingOrientation == [kind |-> "pending", value |-> 0]

NoDims ==
  [imageWidth |-> 1, imageHeight |-> 1, borderPercent |-> 0,
   aspectPreset |-> "original"]

NoLayout == [t |-> "undefined"]

NoFile == [bytes |-> <<>>, readable |-> TRUE]

NoSize == [width |-> 1, height |-> 1, orientation |-> 1]

NoOriented == [t |-> "undefined"]

NoScale == [t |-> "undefined"]

sizeVars == <<size, oriented, scale>>

NoLine == [t |-> "undefined"]

renderVars == <<exifTemplate, exifLine>>

\* lines 72-107: the state of HomePage after its first effects, with no
\* image loaded
PageDefaults ==
  [image |-> null, thickness |-> 8, aspect |-> "original",
   cropMode |-> FALSE, paperTexture |-> FALSE, pan |-> [x |-> 0, y |-> 0],
   watermarkEnabled |-> FALSE, exifEnabled |-> FALSE,
   exportPreset |-> "instagram", exportFormat |-> "jpeg",
   quality |-> Num(92, 100), resolutionMode |-> "safe",
   stripMetadata |-> TRUE, statusMessage |-> "", progress |-> 0,
   isExporting |-> FALSE, sharedFile |-> null]

\* no export has been started
RunIdle ==
  [pc |-> "idle", snap |-> null, modes |-> <<>>, outcome |-> "none",
   downloaded |-> null, timers |-> 0]

exportVars == <<page, run>>

\* the page as it is before a file is selected
ExportIdle == page = PageDefaults /\ run = RunIdle

\* no reader is being probed
NoProbe ==
  [kind |-> "none", view |-> <<>>, little |-> TRUE, ifdOffset |-> 0,
   entry |-> undefinedEntry]

NoReads == [op |-> "none", at |-> {}]

ProbeIdle == probe = NoProbe /\ reads = NoReads

\* no segment scan is being stepped
NoScan ==
  [fn |-> "none", view |-> <<>>, offset |-> 0, steps |-> 0, pc |-> "done"]

ScanIdle == scan = NoScan

\* no export canvas has been created
NoCanvas == [t |-> "undefined"]

CanvasIdle == exportCanvas = NoCanvas

\* nothing is being drawn
NoXform ==
  [orientation |-> 1, x |-> 0, y |-> 0, targetWidth |-> 1,
   targetHeight |-> 1, drawn |-> null]

XformIdle == xform = NoXform

\* no file has been selected
NoLoader ==
  [files |-> <<>>, pc |-> <<>>, exifData |-> null, overlapped |-> FALSE]

LoaderIdle == loader = NoLoader

lateVars == <<probe, reads, scan, exportCanvas, xform, loader>>

LateIdle == ProbeIdle /\ ScanIdle /\ CanvasIdle /\ XformIdle /\ LoaderIdle

\* no caption is being rendered
RenderIdle == exifTemplate = TEMPLATE_FULL /\ exifLine = NoLine

\* no image size is being measured
SizeIdle == size = NoSize /\ oriented = NoOriented /\ scale = NoScale

earlyVars ==
  <<file, src, exif, orient, dims, layout, sizeVars, renderVars, exportVars>>

\* no file is being decoded
FileIdle ==
  /\ src = BaseScenario
  /\ file = NoFile
  /\ exif = PendingExif
  /\ orient = PendingOrientation

\* no layout is being computed
LayoutIdle == dims = NoDims /\ layout = NoLayout

EarlyIdle ==
  FileIdle /\ LayoutIdle /\ SizeIdle /\ RenderIdle /\ ExportIdle

\* A file has been selected; nothing has been decoded yet.
Init ==
  /\ src \in Scenarios
  /\ file = FileOf(src)
  /\ exif = PendingExif
  /\ orient = PendingOrientation
  /\ LayoutIdle
  /\ SizeIdle
  /\ RenderIdle
  /\ ExportIdle
  /\ LateIdle

\* await extractExifData(file)
ExtractExifData ==
  /\ exif.state = "pending"
  /\ exif' = extractExifData(file)
  /\ UNCHANGED <<file, src, orient, dims, layout, sizeVars, renderVars, exportVars, lateVars>>

\* parseExifOrientation(buffer), once file.arrayBuffer() has given the bytes
ParseExifOrientation ==
  /\ orient.kind = "pending"
  /\ file.readable
  /\ orient' = parseExifOrientation(file.bytes)
  /\ UNCHANGED <<file, src, exif, dims, layout, sizeVars, renderVars, exportVars, lateVars>>

Next == ExtractExifData \/ ParseExifOrientation

Spec == Init /\ [][Next]_vars

\* The geometry of an image of the given size, border and preset.
GeomInit ==
  /\ FileIdle
  /\ SizeIdle
  /\ RenderIdle
  /\ ExportIdle
  /\ LateIdle
  /\ dims \in [imageWidth : Dims, imageHeight : Dims,
               borderPercent : BorderPercents, aspectPreset : AspectPresets]
  /\ layout = NoLayout

ComputeFrameLayout ==
  /\ layout = NoLayout
  /\ layout' = computeFrameLayout(dims.imageWidth, dims.imageHeight,
                                  dims.borderPercent, dims.aspectPreset)
  /\ UNCHANGED <<file, src, exif, orient, dims, sizeVars, renderVars, exportVars, lateVars>>

GeomNext == ComputeFrameLayout

GeomSpec == GeomInit /\ [][GeomNext]_vars

\* the largest image edge measured
MaxEdge == 8192

\* edges around the two limits: 4086 * 4086 and 4096 * 4077 pixels are
\* within the pixel limit, 4087 * 4087 and 4096 * 4078 are above it
SizeDims ==
  Dims \cup {4077, 4078, 4086, 4087, IOS_SAFE_EDGE_LIMIT,
             IOS_SAFE_EDGE_LIMIT + 1, MaxEdge}

\* The oriented size and the safe scale of an image of the given size.
SizeInit ==
  /\ FileIdle
  /\ LayoutIdle
  /\ RenderIdle
  /\ ExportIdle
  /\ LateIdle
  /\ size \in [width : SizeDims, height : SizeDims,
                orientation : 0..MaxOrientation]
  /\ oriented = NoOriented
  /\ scale = NoScale

GetOrientedDimensions ==
  /\ oriented = NoOriented
  /\ oriented' = getOrientedDimensions(size.width, size.height,
                                       size.orientation)
  /\ UNCHANGED <<file, src, exif, orient, dims, layout, size, scale,
               renderVars, exportVars, lateVars>>

ComputeSafeScale ==
  /\ scale = NoScale
  /\ scale' = computeSafeScale(size.width, size.height)
  /\ UNCHANGED <<file, src, exif, orient, dims, layout, size, oriented,
               renderVars, exportVars, lateVars>>

\* lines 233-238 of renderExport, for a layout whose canvas has the
\* measured size
CreateExportCanvas(mode) ==
  /\ exportCanvas = NoCanvas
  /\ exportCanvas' = createExportCanvas(size.width, size.height, mode)
  /\ UNCHANGED <<earlyVars, probe, reads, scan, xform, loader>>

SizeNext ==
  \/ GetOrientedDimensions
  \/ ComputeSafeScale
  \/ \E mode \in {"safe", "original"} : CreateExportCanvas(mode)

SizeSpec == SizeInit /\ [][SizeNext]_vars

\* A file is decoded and its caption rendered from a template.
RenderInit ==
  /\ src \in RenderScenarios
  /\ file = FileOf(src)
  /\ exif = PendingExif
  /\ orient = PendingOrientation
  /\ LayoutIdle
  /\ SizeIdle
  /\ exifTemplate \in Templates
  /\ exifLine = NoLine
  /\ ExportIdle
  /\ LateIdle

\* renderExifLine(exifData, EXIF_TEMPLATES[exifTemplate])
RenderExifLine ==
  /\ exif.state = "fulfilled"
  /\ exifLine = NoLine
  /\ exifLine' = Str(renderExifLine(exif.value, exifTemplate))
  /\ UNCHANGED <<file, src, exif, orient, dims, layout, sizeVars,
               exifTemplate, exportVars, lateVars>>

RenderNext == ExtractExifData \/ RenderExifLine

RenderSpec == RenderInit /\ [][RenderNext]_vars

\* the most progress timers that are pending at once
MaxTimers == 1

\* the source files of the loaded image: a JPEG, a PNG, and a file of
\* unknown type whose name ends in .jpg
SourceFiles ==
  {[type |-> "image/jpeg", jpegName |-> TRUE],
   [type |-> "image/png", jpegName |-> FALSE],
   [type |-> "", jpegName |-> TRUE]}

\* a JPEG loaded, no border and every visual control off or zero
PagePlain ==
  [PageDefaults EXCEPT
     !.image = [sourceFile |-> [type |-> "image/jpeg", jpegName |-> TRUE]],
     !.thickness = 0,
     !.statusMessage = STATUS_READY]

\* the plain page with one visual control moved, or another source file
LoadedPages ==
  {[PagePlain EXCEPT !.image = [sourceFile |-> f]] : f \in SourceFiles}
  \cup {PagePlain,
        [PagePlain EXCEPT !.thickness = 8],
        [PagePlain EXCEPT !.aspect = "1:1"],
        [PagePlain EXCEPT !.paperTexture = TRUE],
        [PagePlain EXCEPT !.cropMode = TRUE],
        [PagePlain EXCEPT !.cropMode = TRUE, !.pan = [x |-> 4, y |-> 0]],
        [PagePlain EXCEPT !.cropMode = TRUE, !.pan = [x |-> 0, y |-> 4]],
        [PagePlain EXCEPT !.watermarkEnabled = TRUE],
        [PagePlain EXCEPT !.exifEnabled = TRUE]}

\* A directory of one out-of-line RATIONAL, cut at every length, is parsed
\* at any offset, and entries of any type, count and offset are read from it.
MaxCount == 3

MaxType == 10

ProbeDirectory(little) ==
  EncodeIFD(<<Rational(EXIF_TAG_FNUMBER, 28, 10)>>, little, 0)

ProbeViews(little) ==
  {SubSeq(ProbeDirectory(little), 1, k) :
     k \in 0..Len(ProbeDirectory(little))}

ProbeEntries(view) ==
  [type : 0..MaxType, count : 0..MaxCount,
   valueOffset : 0..(byteLength(view) + 1)]

ProbeInit ==
  /\ EarlyIdle
  /\ ScanIdle
  /\ CanvasIdle
  /\ XformIdle
  /\ LoaderIdle
  /\ \E little \in BOOLEAN : \E view \in ProbeViews(little) :
       \/ \E ifdOffset \in 0..(byteLength(view) + 1) :
            probe = [kind |-> "directory", view |-> view, little |-> little,
                     ifdOffset |-> ifdOffset, entry |-> undefinedEntry]
       \/ \E entry \in ProbeEntries(view) :
            probe = [kind |-> "entry", view |-> view, little |-> little,
                     ifdOffset |-> 0, entry |-> entry]
  /\ reads = NoReads

\* parseIFD(view, 0, ifdOffset, little)
ParseIFD ==
  /\ probe.kind = "directory"
  /\ reads.op = "none"
  /\ reads' = [op |-> "parseIFD",
               at |-> parseIFDReads(probe.view, probe.ifdOffset,
                                    probe.little)]
  /\ UNCHANGED <<earlyVars, probe, scan, exportCanvas, xform, loader>>

\* readEntryValue(view, entry, little)
ReadEntryValue ==
  /\ probe.kind = "entry"
  /\ reads.op = "none"
  /\ reads' = [op |-> "readEntryValue",
               at |-> readEntryValueReads(probe.view, probe.entry)]
  /\ UNCHANGED <<earlyVars, probe, scan, exportCanvas, xform, loader>>

ProbeNext == ParseIFD \/ ReadEntryValue

ProbeSpec == ProbeInit /\ [][ProbeNext]_vars

\* Segments a scanned file is made of: APP0 segments that declare length
\* 0, 1, 2 and 4, a marker whose high byte is not 0xFF, and an APP1 marker.
ScanSegments ==
  {<<255, 224, 0, 0>>, <<255, 224, 0, 1>>, <<255, 224, 0, 2>>,
   <<255, 224, 0, 4, 74, 70>>, <<18, 52, 0, 2>>, <<255, 225, 0, 2>>}

MaxSegments == 3

RECURSIVE Chains(_)
Chains(n) ==
  IF n = 0 THEN {<<>>}
  ELSE Chains(n - 1)
       \cup {c \o sg : c \in Chains(n - 1), sg \in ScanSegments}

\* SOI and up to MaxSegments segments, cut at every length from 4 on
ScanViews ==
  UNION {{SubSeq(<<255, 216>> \o c, 1, k) : k \in 4..(Len(c) + 2)} :
         c \in Chains(MaxSegments)}

\* Either scan is about to enter its loop with offset = 2.
ScanInit ==
  /\ EarlyIdle
  /\ ProbeIdle
  /\ CanvasIdle
  /\ XformIdle
  /\ LoaderIdle
  /\ \E fn \in {"extractExifData", "parseExifOrientation"} :
       \E view \in ScanViews :
         scan = [fn |-> fn, view |-> view, offset |-> 2, steps |-> 0,
                 pc |-> "loop"]

\* One iteration of the loop, or the loop test failing.
ScanStep ==
  /\ scan.pc = "loop"
  /\ LET step == IF scan.fn = "extractExifData"
                 THEN exifScanStep(scan.view, scan.offset)
                 ELSE orientationScanStep(scan.view, scan.offset)
     IN scan' = IF ~ScanGoesOn(scan.view, scan.offset)
                THEN [scan EXCEPT !.pc = "done"]
                ELSE IF step.kind = "continue"
                THEN [scan EXCEPT !.offset = step.offset,
                                  !.steps = scan.steps + 1]
                ELSE [scan EXCEPT !.steps = scan.steps + 1, !.pc = "done"]
  /\ UNCHANGED <<earlyVars, probe, reads, exportCanvas, xform, loader>>

ScanNext == ScanStep

\* the loop is synchronous code: an iteration that can run does run
ScanSpec == ScanInit /\ [][ScanNext]_vars /\ WF_vars(ScanNext)

\* the largest edge of a target rectangle an image is drawn into
MaxTarget == 4

\* An image of any orientation is about to be drawn into a target rectangle.
XformInit ==
  /\ EarlyIdle
  /\ ProbeIdle
  /\ ScanIdle
  /\ CanvasIdle
  /\ LoaderIdle
  /\ xform \in [orientation : 0..MaxOrientation, x : {0, 3}, y : {0, 5},
                 targetWidth : 1..MaxTarget, targetHeight : 1..MaxTarget,
                 drawn : {null}]

DrawOriented ==
  /\ xform.drawn = null
  /\ xform' = [xform EXCEPT
                 !.drawn = drawOriented(xform.orientation, xform.x, xform.y,
                                        xform.targetWidth,
                                        xform.targetHeight)]
  /\ UNCHANGED <<earlyVars, probe, reads, scan, exportCanvas, loader>>

XformNext == DrawOriented

XformSpec == XformInit /\ [][XformNext]_vars

\* Two files to select: a JPEG of orientation 6 with EXIF and a PNG without.
\* Either may make parseExifOrientation throw or fail to decode.
FileA ==
  [name |-> "A", sourceFile |-> [type |-> "image/jpeg", jpegName |-> TRUE],
   orientation |-> 6, orientationThrows |-> FALSE, unavailable |-> FALSE,
   decodes |-> TRUE]

FileB ==
  [name |-> "B", sourceFile |-> [type |-> "image/png", jpegName |-> FALSE],
   orientation |-> 1, orientationThrows |-> FALSE, unavailable |-> TRUE,
   decodes |-> TRUE]

Variants(f) ==
  {f, [f EXCEPT !.orientationThrows = TRUE], [f EXCEPT !.decodes = FALSE]}

\* The page as it first renders; file A and then file B will be selected.
PageInit ==
  /\ FileIdle
  /\ LayoutIdle
  /\ SizeIdle
  /\ RenderIdle
  /\ ProbeIdle
  /\ ScanIdle
  /\ CanvasIdle
  /\ XformIdle
  /\ page = PageDefaults
  /\ run = RunIdle
  /\ \E a \in Variants(FileA), b \in Variants(FileB) :
       loader = [files |-> <<a, b>>, pc |-> <<"unselected", "unselected">>,
                 exifData |-> null, overlapped |-> FALSE]

loaderOtherVars ==
  <<file, src, exif, orient, dims, layout, sizeVars, renderVars, run,
    probe, reads, scan, exportCanvas, xform>>

\* the file input's onChange: handleFileChange(file) up to
\* await file.arrayBuffer(); the second file is selected after the first
HandleFileChange(i) ==
  /\ loader.pc[i] = "unselected"
  /\ i = 2 => loader.pc[1] # "unselected"
  /\ page' = FileChosen(page)
  /\ loader' = [loader EXCEPT
                  !.pc[i] = "buffer",
                  !.overlapped = (i = 2 /\ loader.pc[1] \notin {"done", "threw"})]
  /\ UNCHANGED loaderOtherVars

\* file.arrayBuffer() has settled: parseExifOrientation(buffer), which may
\* throw out of the handler, and the call of extractExifData(file)
BufferRead(i) ==
  /\ loader.pc[i] = "buffer"
  /\ loader' = [loader EXCEPT
                  !.pc[i] = IF loader.files[i].orientationThrows
                            THEN "threw" ELSE "exif"]
  /\ UNCHANGED <<page, loaderOtherVars>>

\* extractExifData(file) has settled: setExifData(parsedExif) and the
\* start of the decode
ExifParsed(i) ==
  /\ loader.pc[i] = "exif"
  /\ loader' = [loader EXCEPT !.pc[i] = "decode",
                              !.exifData = ExifDataOf(loader.files[i])]
  /\ UNCHANGED <<page, loaderOtherVars>>

\* the decode has settled: setImage and the status, or the rejection of
\* loadImageElement leaving the handler
ImageDecoded(i) ==
  /\ loader.pc[i] = "decode"
  /\ page' = IF loader.files[i].decodes
             THEN ImageSet(page, loader.files[i])
             ELSE page
  /\ loader' = [loader EXCEPT
                  !.pc[i] = IF loader.files[i].decodes THEN "done"
                            ELSE "threw"]
  /\ UNCHANGED loaderOtherVars

\* The page with or without a loaded image; the export controls are then
\* moved and exports are run.
ExportInit ==
  /\ FileIdle
  /\ LayoutIdle
  /\ SizeIdle
  /\ RenderIdle
  /\ page \in LoadedPages \cup {PageDefaults}
  /\ run = RunIdle
  /\ LateIdle

otherVars ==
  <<file, src, exif, orient, dims, layout, sizeVars, renderVars, lateVars>>

\* setExportPreset(preset) and the effect of lines 129-135, which runs when
\* exportPreset has changed
ChooseExportPreset(preset) ==
  /\ preset # page.exportPreset
  /\ page' = [page EXCEPT
                !.exportPreset = preset,
                !.exportFormat = applyExportPreset(preset).exportFormat,
                !.quality = applyExportPreset(preset).quality,
                !.resolutionMode = applyExportPreset(preset).resolutionMode,
                !.stripMetadata = applyExportPreset(preset).stripMetadata]
  /\ UNCHANGED <<run, otherVars>>

\* the Advanced controls (lines 513-526)
SetExportFormat(format) ==
  /\ format # page.exportFormat
  /\ page' = [page EXCEPT !.exportFormat = format]
  /\ UNCHANGED <<run, otherVars>>

SetResolutionMode(mode) ==
  /\ mode # page.resolutionMode
  /\ page' = [page EXCEPT !.resolutionMode = mode]
  /\ UNCHANGED <<run, otherVars>>

ToggleStripMetadata ==
  /\ page' = [page EXCEPT !.stripMetadata = ~@]
  /\ UNCHANGED <<run, otherVars>>

\* a click on Download: handleExport up to its first pause or its end
HandleExport(drawThrows, retryThrows) ==
  /\ page.image # null
  /\ ~page.isExporting
  /\ run.pc = "idle"
  /\ run.timers < MaxTimers
  /\ page' = FirstRender(Started(page, run), drawThrows, retryThrows).page
  /\ run' = FirstRender(Started(page, run), drawThrows, retryThrows).run
  /\ UNCHANGED otherVars

\* canvas.toBlob calls back with a blob
BlobResolved ==
  /\ run.pc = "rendering"
  /\ page' = Stored([page |-> [page EXCEPT !.progress = 100], run |-> run],
                    CanvasFile(run.snap, LastMode(run.modes))).page
  /\ run' = Stored([page |-> [page EXCEPT !.progress = 100], run |-> run],
                   CanvasFile(run.snap, LastMode(run.modes))).run
  /\ UNCHANGED otherVars

\* canvas.toBlob calls back with no blob
BlobRejected(retryThrows) ==
  /\ run.pc = "rendering"
  /\ page' = AfterRejection([page |-> page, run |-> run], retryThrows).page
  /\ run' = AfterRejection([page |-> page, run |-> run], retryThrows).run
  /\ UNCHANGED otherVars

\* setTimeout(() => setProgress(0), 800)
ProgressTimer ==
  /\ run.timers > 0
  /\ page' = [page EXCEPT !.progress = 0]
  /\ run' = [run EXCEPT !.timers = @ - 1]
  /\ UNCHANGED otherVars

ExportNext ==
  \/ \E preset \in ExportPresets : ChooseExportPreset(preset)
  \/ \E format \in {"jpeg", "png"} : SetExportFormat(format)
  \/ \E mode \in {"original", "safe"} : SetResolutionMode(mode)
  \/ ToggleStripMetadata
  \/ \E drawThrows, retryThrows \in BOOLEAN :
       HandleExport(drawThrows, retryThrows)
  \/ BlobResolved
  \/ \E retryThrows \in BOOLEAN : BlobRejected(retryThrows)
  \/ ProgressTimer

ExportSpec == ExportInit /\ [][ExportNext]_vars

\* the browser calls back from canvas.toBlob and runs its timers
ExportFairSpec ==
  /\ ExportSpec
  /\ WF_vars(BlobResolved \/ \E retryThrows \in BOOLEAN : BlobRejected(retryThrows))
  /\ WF_vars(ProgressTimer)

\* loading and exporting on one page
PageNext ==
  \/ \E i \in 1..2 : HandleFileChange(i)
  \/ \E i \in 1..2 : BufferRead(i)
  \/ \E i \in 1..2 : ExifParsed(i)
  \/ \E i \in 1..2 : ImageDecoded(i)
  \/ \E drawThrows, retryThrows \in BOOLEAN :
       HandleExport(drawThrows, retryThrows)
  \/ BlobResolved
  \/ \E retryThrows \in BOOLEAN : BlobRejected(retryThrows)
  \/ ProgressTimer

PageSpec == PageInit /\ [][PageNext]_vars

(***************************************************************************)
(* What a scenario stores, read off the scenario and not off the bytes     *)
(***************************************************************************)
\* byte offset of the APP1 marker, of the TIFF base, of the EXIF sub-IFD
App1Start(sc) == 2 + Len(PreSegment(sc.pre))

TiffStart(sc) == App1Start(sc) + 4 + 6

ExifIfdStart(sc) ==
  TiffStart(sc) + 8 + Len(EncodeIFD(Ifd0Entries(sc, 0), sc.little, 8))

\* the walk reaches an APP1 segment that carries the Exif signature
CarriesExif(sc) == sc.soi /\ sc.sig /\ sc.pre \notin {"corrupt", "xmp"}

\* the file is the whole encoding and IFD0 is where the header says
WellFormed(sc) ==
  /\ CarriesExif(sc)
  /\ sc.readable
  /\ sc.ifdOff = 8
  /\ sc.keep = Len(EncodeJpeg(sc))

HasTag(entries, tag) == \E k \in 1..Len(entries) : entries[k].tag = tag

EntryIndex(entries, tag) ==
  CHOOSE k \in 1..Len(entries) : entries[k].tag = tag

EntryOf(entries, tag) == entries[EntryIndex(entries, tag)]

\* byte offset just past the 12 bytes of the entry of `tag`
Ifd0EntryEnd(sc, tag) ==
  TiffStart(sc) + 8 + 2 + 12 * EntryIndex(Ifd0Entries(sc, 0), tag)

ExifEntryEnd(sc, tag) ==
  ExifIfdStart(sc) + 2 + 12 * EntryIndex(sc.exifIfd, tag)

\* the last byte of the directories: the end of the last 12-byte entry
DirectoriesEnd(sc) ==
  IF sc.exifIfd = <<>>
  THEN TiffStart(sc) + 8 + 2 + 12 * Len(sc.ifd0)
  ELSE ExifIfdStart(sc) + 2 + 12 * Len(sc.exifIfd)

\* the text an ASCII entry stores, trimmed; undefined when nothing is left
StoredText(entries, tag) ==
  IF HasTag(entries, tag) /\ Trim(EntryOf(entries, tag).vals) # <<>>
  THEN Str(Trim(EntryOf(entries, tag).vals))
  ELSE undefined

\* the k-th rational an entry stores; undefined when its denominator is 0
StoredRational(entries, tag, k) ==
  IF HasTag(entries, tag) /\ 2 * k <= Len(EntryOf(entries, tag).vals)
     /\ EntryOf(entries, tag).vals[2 * k] # 0
  THEN Num(EntryOf(entries, tag).vals[2 * k - 1],
           EntryOf(entries, tag).vals[2 * k])
  ELSE undefined

ExifDone == exif.state # "pending"

OrientationDone == orient.kind # "pending"

(***************************************************************************)
(* C1 - C10                                                                *)
(***************************************************************************)
\* the cases in which C1 wants the default orientation
DefaultOrientationCase(sc) ==
  \/ ~CarriesExif(sc)
  \/ sc.keep < 2
  \/ sc.keep < TiffStart(sc) + 8 + 2 + 12 * Len(Ifd0Entries(sc, 0))
  \/ sc.ifdOff = FarOffset
  \/ ~HasTag(sc.ifd0, TAG_ORIENTATION)

\* C1: for every byte buffer parseExifOrientation returns a value and does
\* not throw, and the value is 1 when the buffer has no SOI marker, no APP1
\* segment with the Exif signature, a TIFF header or IFD0 that extends
\* beyond the end of the buffer, or an IFD0 without an Orientation entry.
C1_OrientationNeverThrows ==
  OrientationDone =>
    /\ orient.kind = "returned"
    /\ DefaultOrientationCase(src) => orient.value = 1

\* C2: extractExifData never lets an exception reach its caller: the
\* promise is fulfilled for every buffer, and when reading the file fails
\* or a read of the TIFF header (byte-order marker, first-IFD offset) goes
\* past the end of the buffer the value is exactly {unavailable: true}.
C2_ExtractNeverRejects ==
  ExifDone =>
    /\ exif.state = "fulfilled"
    /\ (~file.readable
        \/ (CarriesExif(src) /\ Len(file.bytes) < TiffStart(src) + 8))
         => exif.value = Unavailable

\* a read of the TIFF header raised RangeError and the catch block turned
\* it into {unavailable: true}
C2_Witness ==
  /\ exif.state = "fulfilled"
  /\ file.readable
  /\ Len(file.bytes) > TiffStart(src)
  /\ exifTryBody(file.bytes) = Thrown
  /\ exif.value = Unavailable

StartsWithSoi(bytes) == Len(bytes) >= 2 /\ SubSeq(bytes, 1, 2) = <<255, 216>>

\* C3: for every buffer whose first two bytes are not 0xFFD8, buffers
\* shorter than 4 bytes included, extractExifData returns unavailable = true
\* and no other field.
C3_NoSoiIsUnavailable ==
  (ExifDone /\ (~StartsWithSoi(file.bytes) \/ Len(file.bytes) < 4))
    => exif.value = Unavailable

\* a buffer of a whole file's length that starts with another marker
C3_Witness ==
  /\ exif.state = "fulfilled"
  /\ file.readable
  /\ Len(file.bytes) > TiffStart(src) + 8
  /\ SubSeq(file.bytes, 1, 2) = <<255, 217>>
  /\ exif.value = Unavailable

\* the EXIF payload is cut: the TIFF header, a directory or some 12-byte
\* entry extends past the end of the buffer
TruncatedPayload(sc) ==
  /\ CarriesExif(sc)
  /\ sc.readable
  /\ \/ sc.keep < DirectoriesEnd(sc)
     \/ sc.ifdOff = FarOffset

\* C4 as claimed: a truncated EXIF payload gives exactly
\* {unavailable: true}, never a record with fields or a debug mapping.
C4_TruncatedIsUnavailable ==
  (ExifDone /\ TruncatedPayload(src)) => exif.value = Unavailable

\* the 12-byte entry of a tag is cut off (or its directory is out of reach)
Ifd0EntryCut(sc, tag) ==
  \/ sc.ifdOff = FarOffset
  \/ ~HasTag(sc.ifd0, tag)
  \/ sc.keep < Ifd0EntryEnd(sc, tag)

ExifEntryCut(sc, tag) ==
  \/ sc.ifdOff = FarOffset
  \/ ~HasTag(sc.exifIfd, tag)
  \/ sc.keep < ExifEntryEnd(sc, tag)

\* C4 as amended: a buffer that ends inside the TIFF header gives exactly
\* {unavailable: true}; a buffer with a whole header whose IFD0, EXIF
\* sub-IFD or entries extend past the end gives a record with the debug
\* mapping and no unavailable flag, whose fields come only from entries
\* that lie wholly inside the buffer (a cut-off entry is skipped).
C4_TruncatedHeaderIsUnavailable ==
  (ExifDone /\ TruncatedPayload(src)) =>
    IF Len(file.bytes) < TiffStart(src) + 8
    THEN exif.value = Unavailable
    ELSE /\ ~exif.value.unavailable
         /\ exif.value.debug.t = "object"
         /\ (Ifd0EntryCut(src, TAG_MAKE) /\ Ifd0EntryCut(src, TAG_MODEL))
              => exif.value.camera = undefined
         /\ ExifEntryCut(src, EXIF_TAG_FNUMBER)
              => exif.value.aperture = undefined
         /\ ExifEntryCut(src, EXIF_TAG_LENS_MODEL)
              => exif.value.lens = undefined

\* IFD0 is whole and the EXIF sub-IFD is cut off: the camera is there, the
\* aperture is not, and the record is not {unavailable: true}
C4_Witness ==
  /\ exif.state = "fulfilled"
  /\ TruncatedPayload(src)
  /\ src.ifdOff = 8
  /\ Len(file.bytes) < ExifIfdStart(src) + 2
  /\ exif.value.camera = Str(TextX1)
  /\ exif.value.aperture = undefined
  /\ exif.value.debug.t = "object"

\* C5: the value parseExifOrientation returns is an integer in 1..8; an
\* Orientation entry holding 0 or more than 8 is never returned.
C5_OrientationInRange ==
  orient.kind = "returned" => orient.value \in 1..8

\* the text of a positive finite number: digits and the given punctuation
PositiveFiniteText(v, punctuation) ==
  \/ v.t = "undefined"
  \/ /\ v.t = "string"
     /\ \A k \in 1..Len(v.c) : IsDigit(v.c[k]) \/ v.c[k] \in punctuation
     /\ \E k \in 1..Len(v.c) : v.c[k] \in 49..57

\* C6: every aperture, shutter, iso and focal string extractExifData emits
\* is the formatting of a present, positive, finite number; a zero
\* denominator, a zero value or a non-finite APEX result gives an absent
\* field, never a text holding NaN or Infinity.
C6_OnlyPositiveFiniteText ==
  exif.state = "fulfilled" =>
    /\ PositiveFiniteText(exif.value.aperture, {46})
    /\ PositiveFiniteText(exif.value.shutter, {46, 47, 115})
    /\ PositiveFiniteText(exif.value.iso, {})
    /\ PositiveFiniteText(exif.value.focal, {})

\* the aperture and the shutter time as C7 derives them from the stored tags
ClaimedAperture(sc) ==
  LET fNumber == StoredRational(sc.exifIfd, EXIF_TAG_FNUMBER, 1)
      av == StoredRational(sc.exifIfd, EXIF_TAG_APERTURE_VALUE, 1)
  IN IF fNumber # undefined THEN fNumber
     ELSE IF av # undefined THEN Pow2(Num(av.n, 2 * av.d))
     ELSE undefined

ClaimedShutter(sc) ==
  LET exposureTime == StoredRational(sc.exifIfd, EXIF_TAG_EXPOSURE_TIME, 1)
      tv == StoredRational(sc.exifIfd, EXIF_TAG_SHUTTER_SPEED_VALUE, 1)
  IN IF exposureTime # undefined THEN exposureTime
     ELSE IF tv # undefined THEN Reciprocal(Pow2(tv))
     ELSE undefined

\* C7: the aperture is formatted from FNumber when that tag yields a
\* number and otherwise from 2^(ApertureValue/2); the shutter from
\* ExposureTime when that tag yields a number and otherwise from
\* 2^(-ShutterSpeedValue); for every readable APEX value, zero and
\* negative ones included (APEX 0 gives "1" and "1s").
C7_ApexFallback ==
  (exif.state = "fulfilled" /\ WellFormed(src)) =>
    /\ exif.value.aperture = formatAperture(ClaimedAperture(src))
    /\ exif.value.shutter = formatShutter(ClaimedShutter(src))

\* C8: the camera field is the Model string when the Model tag yields a
\* non-empty trimmed string, otherwise the Make string when that one is
\* non-empty, otherwise absent; Make and Model are never joined.
C8_CameraIsModelElseMake ==
  (exif.state = "fulfilled" /\ WellFormed(src)) =>
    exif.value.camera =
      IF StoredText(src.ifd0, TAG_MODEL) # undefined
      THEN StoredText(src.ifd0, TAG_MODEL)
      ELSE StoredText(src.ifd0, TAG_MAKE)

\* a file with a Make and a padded Model: the camera is the trimmed Model
C8_Witness ==
  /\ exif.state = "fulfilled"
  /\ WellFormed(src)
  /\ StoredText(src.ifd0, TAG_MAKE) = Str(TextFuji)
  /\ HasTag(src.ifd0, TAG_MODEL)
  /\ EntryOf(src.ifd0, TAG_MODEL).vals = TextPaddedX100V
  /\ exif.value.camera = Str(TextX100V)

IsPrefix(p, s) == Len(p) <= Len(s) /\ SubSeq(s, 1, Len(p)) = p

\* "{min}mm" or "{min}-{max}mm" of the 1st and 2nd stored rationals
StoredFocalText(sc) ==
  LET minFocal == StoredRational(sc.exifIfd, EXIF_TAG_LENS_SPECIFICATION, 1)
      maxFocal == StoredRational(sc.exifIfd, EXIF_TAG_LENS_SPECIFICATION, 2)
  IN IF minFocal = maxFocal THEN IntText(MathRound(minFocal)) \o <<109, 109>>
     ELSE IntText(MathRound(minFocal)) \o <<45>>
          \o IntText(MathRound(maxFocal)) \o <<109, 109>>

\* C9: the lens is the LensModel string when that tag yields a non-empty
\* string; otherwise it is built from LensSpecification with the 1st, 2nd,
\* 3rd and 4th stored rationals as min focal, max focal, min aperture and
\* max aperture, so a lens text built from the specification starts with
\* the focal range of the 1st and 2nd stored rationals: a stored rational
\* that cannot be read never shifts a later one into an earlier position.
C9_LensSpecificationPositional ==
  (exif.state = "fulfilled" /\ WellFormed(src)) =>
    IF StoredText(src.exifIfd, EXIF_TAG_LENS_MODEL) # undefined
    THEN exif.value.lens = StoredText(src.exifIfd, EXIF_TAG_LENS_MODEL)
    ELSE exif.value.lens.t = "string" =>
           /\ StoredRational(src.exifIfd, EXIF_TAG_LENS_SPECIFICATION, 1)
                # undefined
           /\ StoredRational(src.exifIfd, EXIF_TAG_LENS_SPECIFICATION, 2)
                # undefined
           /\ IsPrefix(StoredFocalText(src), exif.value.lens.c)

LayoutDone == layout # NoLayout

\* C10: for all positive integer image dimensions, every border percent in
\* 0..30 and every preset, the content lies inside the canvas (offsets are
\* not negative and offset + content size is at most the canvas size), the
\* offset is round((canvas - content) / 2) on each axis, and the two
\* margins of an axis differ by at most one pixel.
C10_ContentCentredInsideCanvas ==
  LayoutDone =>
    LET marginX == layout.canvasWidth - layout.contentWidth
        marginY == layout.canvasHeight - layout.contentHeight
    IN /\ layout.contentX >= 0
       /\ layout.contentY >= 0
       /\ layout.contentX + layout.contentWidth <= layout.canvasWidth
       /\ layout.contentY + layout.contentHeight <= layout.canvasHeight
       /\ 2 * layout.contentX \in {marginX, marginX + 1}
       /\ 2 * layout.contentY \in {marginY, marginY + 1}
       /\ Abs(layout.contentX - (marginX - layout.contentX)) <= 1
       /\ Abs(layout.contentY - (marginY - layout.contentY)) <= 1

\* a 9:16 canvas grown in height around a landscape image, with an odd
\* vertical margin: the top margin is one pixel more than the bottom one
C10_Witness ==
  /\ LayoutDone
  /\ dims.aspectPreset = "9:16"
  /\ dims.borderPercent = 30
  /\ dims.imageWidth > dims.imageHeight
  /\ (layout.canvasHeight - layout.contentHeight) % 2 = 1
  /\ layout.contentY = (layout.canvasHeight - layout.contentHeight + 1) \div 2

\* the README/spec scenario: a 4000x3000 image, border 10 %, preset 1:1
SquareScenario ==
  [imageWidth |-> 4000, imageHeight |-> 3000, borderPercent |-> 10,
   aspectPreset |-> "1:1"]

\* C11 as stated: computeFrameLayout(4000, 3000, 10, '1:1') returns
\* borderPx = 300, a 4600 x 4600 canvas and the content offset (0, 500).
C11_SquareOffsetAtOrigin ==
  (LayoutDone /\ dims = SquareScenario) =>
    /\ layout.borderPx = Int2Num(300)
    /\ layout.canvasWidth = 4600
    /\ layout.canvasHeight = 4600
    /\ layout.contentX = 0
    /\ layout.contentY = 500

\* C11 amended: computeFrameLayout(4000, 3000, 10, '1:1') returns
\* borderPx = 300, a 4600 x 4600 canvas, the content size 4000 x 3000 and
\* the content offset (300, 800), which centres the content in the canvas.
C11_SquareLayout ==
  (LayoutDone /\ dims = SquareScenario) =>
    /\ layout.borderPx = Int2Num(300)
    /\ layout.canvasWidth = 4600
    /\ layout.canvasHeight = 4600
    /\ layout.contentWidth = 4000
    /\ layout.contentHeight = 3000
    /\ layout.contentX = 300
    /\ layout.contentY = 800

\* the layout of the 4000x3000 scenario has been computed
C11_Witness ==
  /\ LayoutDone
  /\ dims = SquareScenario
  /\ layout.canvasHeight = 4600

ScaleDone == scale # NoScale

\* both limits are respected by the size
WithinLimits(width, height) ==
  /\ width * height <= 16700000
  /\ Max(width, height) <= 4096

\* C12: for all positive width and height, computeSafeScale(width, height)
\* is greater than 0 and at most 1, and it is 1 exactly when
\* width * height <= 16,700,000 and max(width, height) <= 4096.
C12_SafeScaleInUnitInterval ==
  ScaleDone =>
    /\ RealLess(Int2Num(0), scale)
    /\ ~RealLess(Int2Num(1), scale)
    /\ (scale = Int2Num(1)) <=> WithinLimits(size.width, size.height)

\* a size within the edge limit and above the pixel limit, scaled down by
\* the square root of the pixel ratio
C12_Witness ==
  /\ ScaleDone
  /\ size.width = 4096
  /\ size.height = 4096
  /\ scale.t = "sqrt"
  /\ RealLess(scale, Int2Num(1))

OrientedDone == oriented # NoOriented

\* C13: getOrientedDimensions(w, h, o) returns (h, w) when o is one of
\* 5, 6, 7, 8 and (w, h) for every other o, in or out of 1..8.
C13_SwapExactlyFor5To8 ==
  OrientedDone =>
    IF size.orientation >= 5 /\ size.orientation <= 8
    THEN oriented.width = size.height /\ oriented.height = size.width
    ELSE oriented.width = size.width /\ oriented.height = size.height

\* a landscape image of orientation 8 comes out portrait
C13_Witness ==
  /\ OrientedDone
  /\ size.orientation = 8
  /\ size.width = 4000
  /\ size.height = 3000
  /\ oriented = [width |-> 3000, height |-> 4000]

LineDone == exifLine # NoLine

\* the placeholder that starts at pos of the template, with the text that
\* stands for it (len = 0 when none starts there)
PlaceholderAt(data, tmpl, pos) ==
  CASE MatchesAt(tmpl, PlaceholderAperture, pos) ->
         [len |-> Len(PlaceholderAperture), text |-> FieldText(data.aperture)]
    [] MatchesAt(tmpl, PlaceholderShutter, pos) ->
         [len |-> Len(PlaceholderShutter), text |-> FieldText(data.shutter)]
    [] MatchesAt(tmpl, PlaceholderIso, pos) ->
         [len |-> Len(PlaceholderIso), text |-> FieldText(data.iso)]
    [] MatchesAt(tmpl, PlaceholderFocal, pos) ->
         [len |-> Len(PlaceholderFocal), text |-> FieldText(data.focal)]
    [] MatchesAt(tmpl, PlaceholderCamera, pos) ->
         [len |-> Len(PlaceholderCamera), text |-> FieldText(data.camera)]
    [] MatchesAt(tmpl, PlaceholderLens, pos) ->
         [len |-> Len(PlaceholderLens), text |-> FieldText(data.lens)]
    [] MatchesAt(tmpl, PlaceholderDate, pos) ->
         [len |-> Len(PlaceholderDate), text |-> FieldText(data.date)]
    [] OTHER -> [len |-> 0, text |-> <<>>]

\* the template with its placeholders replaced all at once: every
\* placeholder of the template gives way to its field's text, verbatim,
\* and every other code unit of the template is kept
RECURSIVE SubstitutedAtOnce(_, _, _)
SubstitutedAtOnce(data, tmpl, pos) ==
  IF pos > Len(tmpl) THEN <<>>
  ELSE IF PlaceholderAt(data, tmpl, pos).len > 0
  THEN PlaceholderAt(data, tmpl, pos).text
         \o SubstitutedAtOnce(data, tmpl,
                              pos + PlaceholderAt(data, tmpl, pos).len)
  ELSE <<tmpl[pos]>> \o SubstitutedAtOnce(data, tmpl, pos + 1)

\* C14: renderExifLine(data, template) is the template with every
\* occurrence of the seven placeholders replaced all at once by the
\* field's value, or by an em-dash when the field is absent; the text
\* outside the placeholders is unchanged and the text of a field value is
\* inserted verbatim and not substituted again.
C14_PlaceholdersReplacedAtOnce ==
  LineDone => exifLine.c = SubstitutedAtOnce(exif.value, exifTemplate, 1)

Ifd0Consulted(e) == e.tag \in {TAG_MAKE, TAG_MODEL}

ExifConsulted(e) ==
  e.tag \in {EXIF_TAG_FNUMBER, EXIF_TAG_EXPOSURE_TIME,
             EXIF_TAG_SHUTTER_SPEED_VALUE, EXIF_TAG_APERTURE_VALUE,
             EXIF_TAG_ISO, EXIF_TAG_PHOTOGRAPHIC_SENSITIVITY,
             EXIF_TAG_FOCAL_LENGTH, EXIF_TAG_LENS_SPECIFICATION,
             EXIF_TAG_LENS_MODEL, EXIF_TAG_DATE_TIME_ORIGINAL}

\* the file with the same Make, Model and consulted EXIF entries and
\* nothing else: no other IFD0 or EXIF tag and no GPS IFD
ConsultedOnly(sc) ==
  Whole([sc EXCEPT !.ifd0 = SelectSeq(sc.ifd0, Ifd0Consulted),
                   !.exifIfd = SelectSeq(sc.exifIfd, ExifConsulted),
                   !.gps = <<>>])

\* C15: the record returned by extractExifData (fields and debug mapping)
\* depends only on Make, Model, the EXIF-IFD pointer and the ten consulted
\* EXIF tags: a whole file and the file that keeps only those entries,
\* without its other tags and its GPS IFD, give the same record.
C15_OtherTagsDoNotShow ==
  (ExifDone /\ WellFormed(src)) =>
    exif = extractExifData(FileOf(ConsultedOnly(src)))

\* a file with a GPS IFD and other tags has been decoded to a record
C15_Witness ==
  /\ ExifDone
  /\ WellFormed(src)
  /\ src.gps = GpsIfd
  /\ src.ifd0 = <<Ascii(TAG_MAKE, TextFuji), Ascii(TAG_MODEL, TextX1)>>
                  \o Ifd0Extras
  /\ HasTag(src.exifIfd, 40961)
  /\ FileOf(ConsultedOnly(src)) # file
  /\ exif.value.camera = Str(TextX1)
  /\ exif.value.debug # NoDebug

\* the export controls the README gives for a preset; it names no quality
\* and no resolution mode for Lossless PNG
ReadmePreset(pg) ==
  CASE pg.exportPreset = "instagram" ->
         /\ pg.exportFormat = "jpeg"
         /\ pg.quality = Num(92, 100)
         /\ pg.resolutionMode = "safe"
         /\ pg.stripMetadata
    [] pg.exportPreset = "ultra" ->
         /\ pg.exportFormat = "jpeg"
         /\ pg.quality = Num(98, 100)
         /\ pg.resolutionMode = "original"
         /\ pg.stripMetadata
    [] pg.exportPreset = "png" ->
         /\ pg.exportFormat = "png"
         /\ pg.stripMetadata

\* C16: choosing an export preset sets the export controls to the README's
\* values: Instagram Crisp gives JPEG, quality 0.92, Max Safe, strip
\* metadata on; Ultra JPEG gives JPEG, quality 0.98, Max Quality
\* (Original), strip metadata on; Lossless PNG gives PNG, strip metadata on.
C16_PresetSetsReadmeValues ==
  [][page'.exportPreset # page.exportPreset => ReadmePreset(page')]_vars

\* C17: no export makes more than two render attempts; a second attempt is
\* made exactly when the first was in 'original' mode and failed, and it is
\* in 'safe' mode; the file of a successful retry is the one stored and
\* downloaded; an export fails only on a failed 'safe' render, and then no
\* file is stored or downloaded and the status is the export-failed
\* message.
C17_OneRetryInSafeMode ==
  [][/\ Len(run'.modes) <= 2
     /\ Len(run'.modes) = 2 => run'.modes = <<"original", "safe">>
     /\ (run'.outcome = "stored" /\ Len(run'.modes) = 2) =>
          /\ page'.sharedFile.origin = "canvas"
          /\ page'.sharedFile.mode = "safe"
          /\ run'.downloaded = page'.sharedFile
     /\ (run'.outcome = "failed" /\ run'.timers = run.timers + 1) =>
          /\ LastMode(run'.modes) = "safe"
          /\ page'.sharedFile = page.sharedFile
          /\ run'.downloaded = run.downloaded
          /\ page'.statusMessage = STATUS_FAILED]_vars

\* an export in 'original' mode has failed, has been retried in 'safe'
\* mode, and the retry's file is stored and downloaded
C17_Witness ==
  /\ run.outcome = "stored"
  /\ run.modes = <<"original", "safe">>
  /\ page.sharedFile.origin = "canvas"
  /\ page.sharedFile.mode = "safe"
  /\ run.downloaded = page.sharedFile

\* disabled={!image || isExporting}
DownloadDisabled == page.image = null \/ page.isExporting

\* disabled={!sharedFile || isExporting}
ShareDisabled == page.sharedFile = null \/ page.isExporting

\* C18: while handleExport is under way isExporting is true and the
\* Download and Share buttons are disabled; once it has ended, on the
\* success, fallback and failure paths alike, isExporting is false, and
\* progress is later reset to 0.
C18_ExportingUntilFinished ==
  /\ [](run.pc = "rendering" =>
          page.isExporting /\ DownloadDisabled /\ ShareDisabled)
  /\ [](run.pc = "idle" => ~page.isExporting)
  /\ [](run.outcome # "none" /\ run.pc = "idle" => <>(page.progress = 0))

\* an export is waiting for its render with both buttons disabled
C18_Witness ==
  /\ run.pc = "rendering"
  /\ page.isExporting
  /\ page.sharedFile # null
  /\ page.progress = 72

\* the state the running handler closed over: that of the click
ClosedOver == IF run.pc = "rendering" THEN run.snap ELSE Closure(page)

\* C19: a file produced while 'Strip metadata on export' is on is a fresh
\* canvas encoding, never the source file; the source file is handed back
\* only when mode is original, format is JPEG, the source is a JPEG, strip
\* metadata is off, thickness is 0, aspect is original, and texture, crop
\* mode, pan, watermark and EXIF caption are all off or zero.
C19_SourceReusedOnlyUnchanged ==
  [][(run'.outcome = "stored" /\ run'.timers = run.timers + 1) =>
       /\ ClosedOver.stripMetadata => run'.downloaded.origin = "canvas"
       /\ page'.stripMetadata => run'.downloaded.origin = "canvas"
       /\ run'.downloaded.origin = "source" =>
            /\ ClosedOver.resolutionMode = "original"
            /\ ClosedOver.exportFormat = "jpeg"
            /\ \/ ClosedOver.image.sourceFile.type = "image/jpeg"
               \/ ClosedOver.image.sourceFile.jpegName
            /\ ~ClosedOver.stripMetadata
            /\ ClosedOver.thickness = 0
            /\ ClosedOver.aspect = "original"
            /\ ~ClosedOver.paperTexture
            /\ ~ClosedOver.cropMode
            /\ ClosedOver.pan = [x |-> 0, y |-> 0]
            /\ ~ClosedOver.watermarkEnabled
            /\ ~ClosedOver.exifEnabled]_vars

\* the source file has been handed back by an export with strip off
C19_Witness ==
  /\ run.outcome = "stored"
  /\ run.downloaded.origin = "source"
  /\ page.sharedFile = run.downloaded
  /\ ~page.stripMetadata

\* the declared extent of a parsed entry passes the end of the buffer
ExceedsBuffer(view, entry) ==
  /\ entry # undefinedEntry
  /\ entry.valueOffset + typeSize(entry.type) * entry.count
       > byteLength(view)

\* IFD0 and the EXIF sub-IFD as parsed from the bytes of a file whose TIFF
\* header is whole
ParsedIfd0(view, sc) ==
  parseIFD(view, TiffStart(sc), TiffStart(sc) + sc.ifdOff, sc.little)

ParsedExifIfd(view, sc) ==
  exifIfdAt(view, TiffStart(sc), sc.little,
            toNumber(readEntryValue(view,
                       MapGet(ParsedIfd0(view, sc), TAG_EXIF_IFD_POINTER),
                       sc.little)))

\* an entry whose extent passes the end of the buffer shows no value
NoValueWhenCut(view, entries, tag, shown) ==
  ExceedsBuffer(view, MapGet(entries, tag)) => shown = Str(EmDash)

\* C20: a directory entry whose declared extent exceeds the buffer
\* (valueOffset + typeSize(type) * count > buffer length) yields no value
\* from readEntryValue, for ASCII, SHORT, LONG, RATIONAL and SRATIONAL
\* entries alike: the raw value of Make, Model, FNumber, LensModel and
\* LensSpecification shown in the debug mapping is then the em-dash, and
\* never a part of the stored value.
C20_CutValueIsNoValue ==
  (ExifDone /\ CarriesExif(src) /\ src.readable
   /\ exif.value.debug # NoDebug) =>
    /\ NoValueWhenCut(file.bytes, ParsedIfd0(file.bytes, src), TAG_MAKE,
                      exif.value.debug.Make)
    /\ NoValueWhenCut(file.bytes, ParsedIfd0(file.bytes, src), TAG_MODEL,
                      exif.value.debug.Model)
    /\ NoValueWhenCut(file.bytes, ParsedExifIfd(file.bytes, src),
                      EXIF_TAG_FNUMBER, exif.value.debug.FNumber)
    /\ NoValueWhenCut(file.bytes, ParsedExifIfd(file.bytes, src),
                      EXIF_TAG_LENS_MODEL, exif.value.debug.LensModel)
    /\ NoValueWhenCut(file.bytes, ParsedExifIfd(file.bytes, src),
                      EXIF_TAG_LENS_SPECIFICATION,
                      exif.value.debug.LensSpecification)

\* a read of `width` bytes at `offset` lies inside the view
InsideView(view, read) ==
  read[1] >= 0 /\ read[1] + read[2] <= byteLength(view)

\* C21: for every buffer and every directory entry, of any type, count and
\* offset, each fixed-width read that parseIFD, readEntryValue, readAscii,
\* readRational and readSignedRational issue at offset p with width w has
\* p + w <= buffer length.
C21_ReadsInsideBuffer ==
  \A read \in reads.at : InsideView(probe.view, read)

\* an array of two rationals of which only the first lies inside the
\* buffer has been read
C21_Witness ==
  /\ reads.op = "readEntryValue"
  /\ probe.entry.type = 5
  /\ probe.entry.count = 2
  /\ probe.entry.valueOffset + 16 > byteLength(probe.view)
  /\ Cardinality(reads.at) = 2

\* C22: the segment scans of extractExifData and parseExifOrientation end
\* for every buffer: an iteration that goes on leaves the scan offset
\* strictly larger, also after a segment that declares length 0 or 1, the
\* number of iterations is at most byteLength / 2, and the loop is left.
C22_ScanTerminates ==
  /\ [][scan'.pc = "loop" => scan'.offset > scan.offset]_vars
  /\ [](scan.steps * 2 <= byteLength(scan.view))
  /\ <>(scan.pc = "done")

\* a scan has gone past a segment of declared length 0 and has ended on
\* its second iteration
C22_Witness ==
  /\ scan.pc = "done"
  /\ scan.steps = 2
  /\ SubSeq(scan.view, 3, 6) = <<255, 224, 0, 0>>
  /\ scan.offset = 4

\* the file is the whole encoding of its scenario and starts with SOI
WholeJpeg(sc) ==
  sc.readable /\ sc.soi /\ sc.keep = Len(EncodeJpeg(sc))

\* C23: the outcome of the segment scan of extractExifData is decided by
\* the first APP1 marker or the first marker whose high byte is not 0xFF,
\* whichever the walk meets first: a first APP1 segment without the "Exif"
\* signature gives unavailable even when a later APP1 segment carries
\* valid EXIF, nothing after a corrupt marker is examined, and a first
\* APP1 segment with the signature, met directly or after an APP0 segment,
\* is the one decoded.
C23_FirstMarkerDecides ==
  (ExifDone /\ WholeJpeg(src)) =>
    /\ src.pre \in {"xmp", "corrupt"} => exif.value = Unavailable
    /\ (src.pre \in {"none", "app0"} /\ ~src.sig) =>
         exif.value = Unavailable
    /\ (src.pre \in {"none", "app0"} /\ src.sig /\ src.ifdOff = 8) =>
         exif.value.debug # NoDebug

\* a whole file whose first APP1 segment lacks the signature and whose
\* second carries valid EXIF has come out as unavailable
C23_Witness ==
  /\ ExifDone
  /\ WholeJpeg(src)
  /\ src.pre = "xmp"
  /\ src.sig
  /\ src.ifdOff = 8
  /\ exif.value = Unavailable

\* the twelve keys of the debug mapping (t is the tag of the model's
\* JavaScript values)
DebugKeys ==
  {"Make", "Model", "FNumber", "ApertureValue", "ExposureTime",
   "ShutterSpeedValue", "ISOSpeedRatings", "PhotographicSensitivity",
   "FocalLength", "LensModel", "LensSpecification", "DateTimeOriginal"}

\* a text, or a finite number or an array of them about to be stringified
RawOrDash(v) ==
  \/ v.t = "string" /\ Len(v.c) > 0
  \/ v.t = "number" /\ isFinite(v)
  \/ v.t = "array" /\ Len(v.a) > 0
     /\ \A k \in 1..Len(v.a) : v.a[k].t = "number"

\* C26: every record extractExifData returns is either exactly
\* {unavailable: true}, with no other field, or a record without the
\* unavailable flag that carries a debug mapping with exactly the twelve
\* keys, each holding the stringified raw value or an em-dash.
C26_TwoShapes ==
  ExifDone =>
    \/ exif.value = Unavailable
    \/ /\ ~exif.value.unavailable
       /\ exif.value.debug # NoDebug
       /\ DOMAIN exif.value.debug = DebugKeys \cup {"t"}
       /\ \A key \in DebugKeys : RawOrDash(exif.value.debug[key])

\* a record with a debug mapping that holds a number, a text and an
\* em-dash
C26_Witness ==
  /\ ExifDone
  /\ exif.value.debug # NoDebug
  /\ exif.value.debug.FNumber.t = "number"
  /\ exif.value.debug.Make.t = "string"
  /\ exif.value.debug.Make # Str(EmDash)
  /\ exif.value.debug.DateTimeOriginal = Str(EmDash)

\* the canvas before the preset is applied: content + 2 * borderPx per axis
InitialCanvas(d) ==
  CanvasSize(d.imageWidth, d.imageHeight,
             Num(Min(d.imageWidth, d.imageHeight) * d.borderPercent, 100),
             undefined)

\* the canvas before rounding, with the preset applied
TargetCanvas(d) ==
  CanvasSize(d.imageWidth, d.imageHeight,
             Num(Min(d.imageWidth, d.imageHeight) * d.borderPercent, 100),
             presetToRatio(d.aspectPreset))

\* height has grown when the initial canvas is wider than the ratio, width
\* has grown or stayed otherwise; the other axis is as it was
GrowsOneAxis(initial, final, ratio) ==
  IF NumGt(NumDiv(initial.w, initial.h), ratio)
  THEN final.w = initial.w /\ NumGt(final.h, initial.h)
  ELSE final.h = initial.h /\ ~NumGt(initial.w, final.w)

\* a margin of m pixels is at least borderPx, up to one pixel of rounding
KeepsBorder(m, borderPx) == NumGt(Int2Num(m + 1), borderPx)

\* C24: for a fixed-ratio preset computeFrameLayout only grows one axis of
\* the initial canvas, height when the initial canvas is wider than the
\* target ratio and width otherwise; neither final dimension is smaller
\* than the rounded initial one, each of the four margins around the
\* content is at least borderPx up to rounding, and the canvas before
\* rounding has exactly the target ratio.
C24_CanvasOnlyGrows ==
  (LayoutDone /\ dims.aspectPreset # "original") =>
    /\ GrowsOneAxis(InitialCanvas(dims), TargetCanvas(dims),
                    presetToRatio(dims.aspectPreset))
    /\ layout.canvasWidth >= MathRound(InitialCanvas(dims).w).n
    /\ layout.canvasHeight >= MathRound(InitialCanvas(dims).h).n
    /\ NumDiv(TargetCanvas(dims).w, TargetCanvas(dims).h)
         = presetToRatio(dims.aspectPreset)
    /\ KeepsBorder(layout.contentX, layout.borderPx)
    /\ KeepsBorder(layout.contentY, layout.borderPx)
    /\ KeepsBorder(layout.canvasWidth - layout.contentWidth
                     - layout.contentX, layout.borderPx)
    /\ KeepsBorder(layout.canvasHeight - layout.contentHeight
                     - layout.contentY, layout.borderPx)

\* a 4:5 canvas grown in width around a portrait image with a border
C24_Witness ==
  /\ LayoutDone
  /\ dims.aspectPreset = "4:5"
  /\ dims.borderPercent = 10
  /\ dims.imageWidth = 3000
  /\ dims.imageHeight = 4000
  /\ layout.canvasHeight = 4600
  /\ layout.canvasWidth = 3680

\* C28: when an export in 'original' mode fails and the 'safe' retry
\* succeeds, with JPEG format and strip metadata on, the status message
\* shown once handleExport has finished is the memory-limit fallback
\* notice, and not 'Export complete. Metadata stripped.'.
C28_FallbackNoticeStays ==
  [][(/\ run'.outcome = "stored"
      /\ run'.timers = run.timers + 1
      /\ run'.modes = <<"original", "safe">>
      /\ ClosedOver.exportFormat = "jpeg"
      /\ ClosedOver.stripMetadata)
       => page'.statusMessage = STATUS_FALLBACK]_vars

\* C27: in 'safe' mode the export canvas of renderExport, of size
\* max(1, floor(canvasWidth * s)) by max(1, floor(canvasHeight * s)) with
\* s = computeSafeScale(canvasWidth, canvasHeight), has its longest edge
\* at most 4096 and at most 16,700,000 pixels.
C27_SafeCanvasWithinLimits ==
  (exportCanvas # NoCanvas /\ exportCanvas.mode = "safe") =>
    /\ Max(exportCanvas.width, exportCanvas.height) <= IOS_SAFE_EDGE_LIMIT
    /\ exportCanvas.width * exportCanvas.height <= IOS_SAFE_PIXEL_LIMIT

\* a 4097 x 4097 layout has been scaled by the pixel limit to 4086 x 4086
C27_Witness ==
  /\ exportCanvas # NoCanvas
  /\ exportCanvas.mode = "safe"
  /\ size.width = 4097
  /\ size.height = 4097
  /\ exportCanvas.width = 4086
  /\ exportCanvas.height = 4086

\* the corners of the target rectangle, on the canvas
TargetCorners(t) ==
  {<<t.x, t.y>>, <<t.x + t.targetWidth, t.y>>,
   <<t.x, t.y + t.targetHeight>>,
   <<t.x + t.targetWidth, t.y + t.targetHeight>>}

\* a rotation by a quarter turn is among the calls
QuarterTurn(calls) ==
  \E k \in 1..Len(calls) :
    calls[k].op = "rotate" /\ calls[k].quarters \in {1, 3}

\* C25: for every orientation code 1..8 and every target rectangle the
\* transform issued by applyOrientationTransform, as called by
\* drawOriented, maps the rectangle the image is drawn into onto exactly
\* the target rectangle; a quarter-turn rotation is issued for exactly the
\* codes for which getOrientedDimensions swaps the dimensions, and a code
\* outside 2..8 issues no transform.
C25_DrawnOntoTarget ==
  xform.drawn # null =>
    /\ xform.orientation \in 1..8 =>
         xform.drawn.corners = TargetCorners(xform)
    /\ QuarterTurn(xform.drawn.calls)
         <=> (getOrientedDimensions(1, 2, xform.orientation)
                = [width |-> 2, height |-> 1])
    /\ xform.orientation \notin 2..8 => xform.drawn.calls = <<>>

\* an image of orientation 6 has been drawn into a 4 x 2 rectangle
C25_Witness ==
  /\ xform.drawn # null
  /\ xform.orientation = 6
  /\ xform.targetWidth = 4
  /\ xform.targetHeight = 2
  /\ xform.drawn.corners = TargetCorners(xform)
  /\ Len(xform.drawn.calls) = 2

\* both calls of handleFileChange have run to their end
BothLoaded == loader.pc = <<"done", "done">>

\* C29: if file A and then file B are selected before A's load has
\* finished, then once both calls of handleFileChange have completed the
\* loaded image, its orientation, its source file and exifData all come
\* from file B, under every interleaving of the two calls.
C29_LastSelectedWins ==
  (loader.overlapped /\ BothLoaded) =>
    /\ page.image = ImageOf(loader.files[2])
    /\ loader.exifData = ExifDataOf(loader.files[2])

\* C30: whenever sharedFile is not null it is the result of an export of
\* the image that is loaded: selecting a file clears it, and an export
\* started for the previous image never sets it after the new file was
\* selected.
C30_SharedFileOfLoadedImage ==
  page.sharedFile # null =>
    /\ page.image # null
    /\ page.sharedFile.image = page.image

====
